---- MODULE Spec2Model ----
(***************************************************************************)
(* Verification model of the windtunnel / turbulence workflow simulator.   *)
(*                                                                         *)
(* Spec      : ParallelExecutor.execute driving an arbitrary               *)
(*             workflow_executor (engine/executor.py).                     *)
(*                                                                         *)
(* RunSpec   : commands/run.py::_run_instances, the executor driving      *)
(*             execute_instance for several concurrent instances of one    *)
(*             scenario.                                                   *)
(* FlowSpec  : the same program with one instance and every scenario up    *)
(*             to MaxFlow steps and MaxAssertions post-flow assertions.    *)
(*                                                                         *)
(* asyncio is cooperative: a task runs without interruption between two    *)
(* awaits that actually suspend.  asyncio.Lock protects only code without  *)
(* awaits (executor.py:251-254, 265-268, 299-325), so it is never          *)
(* contended and each locked section is part of the atomic step that       *)
(* reaches it.                                                             *)
(***************************************************************************)
EXTENDS Integers, Sequences, FiniteSets, TLC

\* ------------------------------------------------------------------ bounds
MaxInstances == 3
MaxParallel == 2
RunInstances == 2
MaxFlow == 2
MaxAssertions == 2
MaxAttempts == 3
MaxRetryCount == 2
MaxTimeout == 3
MaxLatency == 2

\* ---------------------------------------------------------------- variables
VARIABLES
    phase,             \* "constructed" | "running" | "returned"   (execute())
    workflow,          \* which workflow_executor drives the instances
    total_instances,   \* argument N of execute()
    parallelism,       \* ParallelExecutor._parallelism
    semaphore,         \* value of ParallelExecutor._semaphore
    cancel_requested,  \* ParallelExecutor._cancel_requested
    stats,             \* ParallelExecutor._stats (ExecutionStats)
    results,           \* ParallelExecutor._results
    pc,                \* position of every _execute_instance task
    task_exception,    \* set of tasks that ended by raising (seen by gather)
    exec_raised,       \* history: instances whose workflow_executor raised
    exec_after_cancel, \* history: instances whose exec began after cancel
    in_flight_at_cancel, \* history: instances inside exec at request_cancel
    \* ---- commands/run.py::_run_instances
    scenario,          \* the scenario every instance runs (scenario_list[0])
    service_headers,   \* X-Correlation-ID entry of service.headers, or None
    default_headers,   \* X-Correlation-ID entry of default_headers, by config
    inst,              \* locals of every execute_instance call
    requests,          \* HTTP requests sent so far
    steps_jsonl,       \* lines of steps.jsonl
    assertions_jsonl,  \* lines of assertions.jsonl
    instances_jsonl,   \* lines of instances.jsonl
    \* ---- utils/retry_policy.py::with_retry
    config,            \* RetryConfig: max_attempts, strategy
    is_retryable,      \* the caller's predicate on exceptions
    should_retry_result, \* the caller's predicate on results
    retry_pc,          \* "start" | "call" | "sleep" | "returned" | "raised"
    attempt,           \* loop variable of with_retry
    last_exception,    \* local last_exception
    last_result,       \* local last_result
    retry_outcome,     \* what with_retry returned or raised
    calls,             \* history: outcome of every func() call
    sleeps,            \* history: every asyncio.sleep(delay) of with_retry
    \* ---- actions/http.py::HttpActionRunner.execute
    http,              \* the action, the locals and the heap of one call
    \* ---- turbulence/config.py::resolve, turbulence/engine.py::apply
    turb,              \* the config, the policy and the locals of one call
    \* ---- actions/wait.py::WaitActionRunner.execute
    wait,              \* the action, the clock and the locals of one call
    \* ---- storage/artifact.py::ArtifactStore, storage/jsonl.py
    store,             \* the store's fields, its files and their readers
    \* ---- storage/jsonl.py::read_jsonl and the other JSONL readers
    reader,            \* a file as it is on disk and what each reader got
    \* ---- engine/replay.py::ReplayEngine
    replay,            \* the engine, its SUT config and its replay() calls
    \* ---- commands/run.py::execute_instance, variation/engine.py
    seeded,            \* the seed, the picks and the contexts of two runs
    \* ---- evaluation/sandbox.py, engine/conditions.py, the comparisons
    evaluation,        \* the input and the outcome of one evaluator call
    \* ---- engine/executor.py::ParallelExecutor.execute and SIGINT
    signals            \* the SIGINT handler installed and the signals sent

execVars == <<phase, workflow, total_instances, parallelism, semaphore,
              cancel_requested, stats, results, pc, task_exception,
              exec_raised, exec_after_cancel, in_flight_at_cancel>>

runVars == <<scenario, service_headers, default_headers, inst, requests,
             steps_jsonl, assertions_jsonl, instances_jsonl>>

retryVars == <<config, is_retryable, should_retry_result, retry_pc, attempt,
               last_exception, last_result, retry_outcome, calls, sleeps>>

\* the action runners checked on their own
actionVars == <<http, turb, wait, store, reader, replay, seeded,
                evaluation, signals>>

\* what each action runner leaves alone
httpOthers == <<execVars, runVars, retryVars, turb, wait, store, reader,
                replay, seeded,
                  evaluation, signals>>
turbOthers == <<execVars, runVars, retryVars, http, wait, store, reader,
                replay, seeded,
                  evaluation, signals>>
waitOthers == <<execVars, runVars, retryVars, http, turb, store, reader,
                replay, seeded,
                  evaluation, signals>>
storeOthers == <<execVars, runVars, retryVars, http, turb, wait, reader,
                 replay, seeded,
                  evaluation, signals>>
readerOthers == <<execVars, runVars, retryVars, http, turb, wait, store,
                  replay, seeded,
                  evaluation, signals>>
replayOthers == <<execVars, runVars, retryVars, http, turb, wait, store,
                  reader, seeded,
                  evaluation, signals>>
seededOthers == <<execVars, runVars, retryVars, http, turb, wait, store,
                  reader, replay,
                  evaluation, signals>>

\* the variables of the components the executor and the run do not touch
restVars == <<retryVars, actionVars>>

vars == <<execVars, runVars, retryVars, actionVars>>

\* ------------------------------------------------------------ pure helpers
Max(a, b) == IF a >= b THEN a ELSE b

None == "None"

\* ParallelExecutor.__init__: self._parallelism = max(1, parallelism)
ClampParallelism(p) == Max(1, p)

\* ExecutionStats() with default field values
ExecutionStats == [completed |-> 0, passed |-> 0, failed |-> 0,
                   errors |-> 0, cancelled |-> 0]

\* InstanceResult: the fields _record_result reads
InstanceResult(id, passed, error) ==
    [instance_id |-> id, passed |-> passed, error |-> error]

\* Python truthiness of result.error (str | None): None and "" are falsy
Truthy(s) == s # None /\ s # ""

Instances == 0 .. (total_instances - 1)

\* results an arbitrary workflow_executor may return
PassedValues == {"True", "False", None}
ErrorValues == {None, "", "boom"}

\* str(e) of the exception an arbitrary workflow_executor may raise
ExceptionMessages == {"boom"}

\* executor.py defines no module-level name `logger` (no import logging,
\* no assignment), yet the except handler evaluates logger.debug(...)
logger_defined == FALSE

\* ------------------------------------------------------------------- Init
ExecInit ==
    /\ phase = "constructed"
    /\ semaphore = 0
    /\ cancel_requested = FALSE
    /\ stats = ExecutionStats
    /\ results = <<>>
    /\ pc = <<>>
    /\ task_exception = {}
    /\ exec_raised = {}
    /\ exec_after_cancel = {}
    /\ in_flight_at_cancel = {}

\* the run state of a program that only uses the executor
RunIdle ==
    /\ scenario = [flow |-> <<>>, assertions |-> <<>>,
                   stop_when |-> [any_action_fails |-> FALSE,
                                  any_assertion_fails |-> FALSE]]
    /\ service_headers = None
    /\ default_headers = <<>>
    /\ inst = <<>>
    /\ requests = {}
    /\ steps_jsonl = <<>>
    /\ assertions_jsonl = <<>>
    /\ instances_jsonl = <<>>

\* with_retry is not running
RetryIdle ==
    /\ config = [max_attempts |-> 0, strategy |-> "fixed",
                 delay_seconds |-> 0, max_delay_seconds |-> 0]
    /\ is_retryable = <<>>
    /\ should_retry_result = <<>>
    /\ retry_pc = "idle"
    /\ attempt = 0
    /\ last_exception = None
    /\ last_result = None
    /\ retry_outcome = None
    /\ calls = <<>>
    /\ sleeps = <<>>

\* HttpActionRunner.execute is not running
HttpIdle == http = [pc |-> "idle"]

\* TurbulenceEngine is not in use
TurbIdle == turb = [pc |-> "idle"]

\* WaitActionRunner.execute is not running
WaitIdle == wait = [pc |-> "idle"]

\* no ArtifactStore is in use
StoreIdle == store = [pc |-> "idle"]

\* no JSONL reader is in use
ReaderIdle == reader = [pc |-> "idle"]

\* no ReplayEngine is in use
ReplayIdle == replay = [pc |-> "idle"]

\* no seeded run is compared
SeededIdle == seeded = [pc |-> "idle"]

\* no evaluator is called on its own
EvaluationIdle == evaluation = [pc |-> "idle"]

\* no signal handling is followed
SignalsIdle == signals = [pc |-> "idle"]

\* the storage, the replay and the seeded runs are not checked on their own
StorageIdle == StoreIdle /\ ReaderIdle /\ ReplayIdle /\ SeededIdle

\* no action runner is running on its own
ActionsIdle ==
    /\ HttpIdle /\ TurbIdle /\ WaitIdle /\ StorageIdle
    /\ EvaluationIdle /\ SignalsIdle

Init ==
    /\ workflow = "arbitrary"
    /\ total_instances \in 0 .. MaxInstances
    /\ parallelism \in {ClampParallelism(p) : p \in 0 .. MaxParallel}
    /\ ExecInit
    /\ RunIdle
    /\ RetryIdle
    /\ ActionsIdle

\* -------------------------------------------------------- executor actions

\* locals of an execute_instance call that has not begun
NotStarted ==
    [ipc |-> "idle", step_index |-> 0, assertion_index |-> 0,
     context |-> {}, last_response |-> {}, passed |-> "True",
     error |-> None, sut |-> 0,
     \* history: outcome of every flow step reached, result of every
     \* post-flow assertion evaluated, message of the exception raised
     trace |-> <<>>, evaluated |-> <<>>, raised |-> None]

\* _reset_state, then _run_with_progress creates one task per instance
Execute ==
    /\ phase = "constructed"
    /\ UNCHANGED restVars
    /\ phase' = "running"
    /\ cancel_requested' = FALSE
    /\ results' = <<>>
    /\ stats' = ExecutionStats
    /\ semaphore' = parallelism
    /\ pc' = [i \in Instances |-> "created"]
    /\ inst' = [i \in Instances |-> NotStarted]
    /\ UNCHANGED <<workflow, total_instances, parallelism, task_exception,
                   exec_raised, exec_after_cancel, in_flight_at_cancel>>
    /\ UNCHANGED <<scenario, service_headers, default_headers, requests,
                   steps_jsonl, assertions_jsonl, instances_jsonl>>

\* request_cancel(), called by the SIGINT handler or by a caller
request_cancel ==
    /\ phase = "running"
    /\ UNCHANGED restVars
    /\ ~cancel_requested
    /\ cancel_requested' = TRUE
    /\ in_flight_at_cancel' = {i \in Instances : pc[i] = "exec"}
    /\ UNCHANGED <<phase, workflow, total_instances, parallelism, semaphore,
                   stats, results, pc, task_exception, exec_raised,
                   exec_after_cancel>>
    /\ UNCHANGED runVars

\* stats after one `self._stats.cancelled += 1`
CountCancelled(s) == [s EXCEPT !.cancelled = @ + 1]

\* _execute_instance, first segment: the check before the semaphore
StartTask(i) ==
    /\ phase = "running"
    /\ UNCHANGED restVars
    /\ pc[i] = "created"
    /\ IF cancel_requested
       THEN /\ stats' = CountCancelled(stats)
            /\ pc' = [pc EXCEPT ![i] = "cancelled"]
       ELSE /\ pc' = [pc EXCEPT ![i] = "sem_wait"]
            /\ UNCHANGED stats
    /\ UNCHANGED <<phase, workflow, total_instances, parallelism, semaphore,
                   cancel_requested, results, task_exception, exec_raised,
                   exec_after_cancel, in_flight_at_cancel>>
    /\ UNCHANGED runVars

SemAcquire_NoDecrement(v) == v

\* asyncio.Semaphore.acquire: the value after a successful acquire
SemAcquire(v) == v - 1

\* asyncio.Semaphore.release: the value after release
SemRelease(v) == v + 1

\* the check after acquiring: may this task call workflow_executor?
MayStartExec(cancel) == ~cancel

\* _execute_instance, second segment: acquire, check again, call exec
AcquireSemaphore(i) ==
    /\ phase = "running"
    /\ UNCHANGED restVars
    /\ pc[i] = "sem_wait"
    /\ semaphore > 0
    /\ IF MayStartExec(cancel_requested)
       THEN /\ semaphore' = SemAcquire(semaphore)
            /\ pc' = [pc EXCEPT ![i] = "exec"]
            /\ exec_after_cancel' = IF cancel_requested
                                    THEN exec_after_cancel \cup {i}
                                    ELSE exec_after_cancel
            /\ UNCHANGED stats
       ELSE \* acquired, counted as cancelled, released on return
            /\ semaphore' = SemRelease(SemAcquire(semaphore))
            /\ stats' = CountCancelled(stats)
            /\ pc' = [pc EXCEPT ![i] = "cancelled"]
            /\ UNCHANGED exec_after_cancel
    /\ UNCHANGED <<phase, workflow, total_instances, parallelism,
                   cancel_requested, results, task_exception, exec_raised,
                   in_flight_at_cancel>>
    /\ UNCHANGED runVars

\* stats after _record_result(result)
RecordStats(s, result) ==
    LET c == [s EXCEPT !.completed = @ + 1]
    IN  IF Truthy(result.error) THEN [c EXCEPT !.errors = @ + 1]
        ELSE IF result.passed = "True" THEN [c EXCEPT !.passed = @ + 1]
        ELSE IF result.passed = "False" THEN [c EXCEPT !.failed = @ + 1]
        ELSE c

\* _record_result and the return out of `async with semaphore`; no caller
\* gives the executor an artifact_store, so nothing is written here
RecordAndRelease(i, result) ==
    /\ results' = Append(results, result)
    /\ stats' = RecordStats(stats, result)
    /\ semaphore' = SemRelease(semaphore)
    /\ pc' = [pc EXCEPT ![i] = "completed"]
    /\ UNCHANGED task_exception

\* the InstanceResult the except handler builds for exception message msg
ErrorResult(i, msg) == InstanceResult("error_" \o ToString(i), "False", msg)

\* the except handler of _execute_instance for an exception with message msg
HandleException(i, msg) ==
    IF logger_defined
    THEN RecordAndRelease(i, ErrorResult(i, msg))
    ELSE \* NameError leaves the handler; the semaphore is released by
         \* `async with`, gather(return_exceptions=True) keeps the exception
         /\ semaphore' = SemRelease(semaphore)
         /\ pc' = [pc EXCEPT ![i] = "crashed"]
         /\ task_exception' = task_exception \cup {i}
         /\ UNCHANGED <<results, stats>>

\* workflow_executor(i) returns an InstanceResult
ExecReturn(i) ==
    /\ phase = "running"
    /\ UNCHANGED restVars
    /\ workflow = "arbitrary"
    /\ pc[i] = "exec"
    /\ \E p \in PassedValues, e \in ErrorValues :
          RecordAndRelease(i, InstanceResult("inst_" \o ToString(i), p, e))
    /\ UNCHANGED <<phase, workflow, total_instances, parallelism,
                   cancel_requested, exec_raised, exec_after_cancel,
                   in_flight_at_cancel>>
    /\ UNCHANGED runVars

\* workflow_executor(i) raises an Exception
ExecRaise(i) ==
    /\ phase = "running"
    /\ UNCHANGED restVars
    /\ workflow = "arbitrary"
    /\ pc[i] = "exec"
    /\ \E msg \in ExceptionMessages : HandleException(i, msg)
    /\ exec_raised' = exec_raised \cup {i}
    /\ UNCHANGED <<phase, workflow, total_instances, parallelism,
                   cancel_requested, exec_after_cancel, in_flight_at_cancel>>
    /\ UNCHANGED runVars

TaskDone(i) == pc[i] \in {"completed", "cancelled", "crashed"}

\* asyncio.gather(*tasks, return_exceptions=True) completes; execute returns
ExecuteReturn ==
    /\ phase = "running"
    /\ UNCHANGED restVars
    /\ \A i \in Instances : TaskDone(i)
    /\ phase' = "returned"
    /\ UNCHANGED <<workflow, total_instances, parallelism, semaphore,
                   cancel_requested, stats, results, pc, task_exception,
                   exec_raised, exec_after_cancel, in_flight_at_cancel>>
    /\ UNCHANGED runVars

Next ==
    \/ Execute
    \/ request_cancel
    \/ \E i \in Instances : StartTask(i)
    \/ \E i \in Instances : AcquireSemaphore(i)
    \/ \E i \in Instances : ExecReturn(i)
    \/ \E i \in Instances : ExecRaise(i)
    \/ ExecuteReturn

Spec == Init /\ [][Next]_vars

\* The event loop runs every task that is ready, asyncio.Semaphore wakes its
\* waiters in turn, and every workflow_executor call returns or raises.
ExecFairness ==
    /\ \A i \in 0 .. (MaxInstances - 1) :
          /\ WF_vars(i \in Instances /\ StartTask(i))
          /\ SF_vars(i \in Instances /\ AcquireSemaphore(i))
          /\ WF_vars(i \in Instances /\ (ExecReturn(i) \/ ExecRaise(i)))
    /\ WF_vars(ExecuteReturn)

LiveSpec == Init /\ [][Next]_vars /\ ExecFairness

\* ---------------------------------------------------------- executor claims

InFlight == {i \in DOMAIN pc : pc[i] = "exec"}

\* C1: while execute runs, the number of instances whose exec call has
\* started and has not yet returned or raised never exceeds the (clamped)
\* parallelism, in every interleaving of the instance tasks.
C1_InFlightBounded ==
    /\ parallelism >= 1
    /\ Cardinality(InFlight) <= parallelism

\* C1 witness: the bound is reached while another instance waits for a permit
C1_Witness ==
    /\ phase = "running"
    /\ Cardinality(InFlight) = parallelism
    /\ \E i \in DOMAIN pc : pc[i] = "sem_wait"

\* entries of results that belong to instance i
ResultsOf(i) ==
    {k \in 1 .. Len(results) :
        results[k].instance_id \in {"inst_" \o ToString(i),
                                    "error_" \o ToString(i)}}

\* C2: when execute returns, completed + cancelled = N and len(results) =
\* completed, whatever mix of exec calls returned or raised and whenever
\* cancel was requested; an exec call that raised is recorded as one
\* error-typed InstanceResult (passed=false, error=str(exception)) and
\* counted in stats.errors.
C2_OutcomesAccumulate ==
    phase = "returned" =>
        /\ stats.completed + stats.cancelled = total_instances
        /\ Len(results) = stats.completed
        /\ \A i \in exec_raised :
              \E k \in ResultsOf(i) :
                  /\ results[k].passed = "False"
                  /\ results[k].error \in ExceptionMessages
        /\ stats.errors >= Cardinality(exec_raised)

\* instances that never began exec / that began exec
NeverBegan == {i \in DOMAIN pc : pc[i] = "cancelled"}
BeganExec == {i \in DOMAIN pc : pc[i] \in {"exec", "completed", "crashed"}}

\* C3: after request_cancel no exec(i) call begins; every instance that had
\* not begun exec is counted in stats.cancelled, in none of
\* passed/failed/errors, and adds no entry to results, while every instance
\* already inside exec runs to completion and is recorded as completed.
C3_CancelContract ==
    /\ exec_after_cancel = {}
    /\ (phase = "returned" /\ cancel_requested) =>
        /\ stats.cancelled = Cardinality(NeverBegan)
        /\ \A i \in NeverBegan : ResultsOf(i) = {}
        /\ stats.passed + stats.failed + stats.errors
              <= total_instances - Cardinality(NeverBegan)
        /\ \A i \in in_flight_at_cancel : Cardinality(ResultsOf(i)) = 1
        /\ stats.completed = Cardinality(BeganExec)

\* the part of C3 that does not depend on how an exception is handled
C3_NoStartAfterCancel ==
    /\ exec_after_cancel = {}
    /\ (phase = "returned" /\ cancel_requested) =>
        /\ stats.cancelled = Cardinality(NeverBegan)
        /\ \A i \in NeverBegan : ResultsOf(i) = {}
        /\ \A i \in in_flight_at_cancel \ exec_raised :
              Cardinality(ResultsOf(i)) = 1

\* ======================================================================
\* commands/run.py::_run_instances: the executor drives execute_instance
\* ======================================================================

\* the one context name the scenarios extract and reference
Names == {"order_id"}

\* a header value a scenario or SUT file gives X-Correlation-ID itself
CustomCorrelation == "custom-corr"

\* a flow Action, reduced to what the runner reads: its type, the template
\* variables it references, its extract map's names, its own
\* X-Correlation-ID header and (assert) its expectation
Action(type, uses, extract, headers, expect) ==
    [type |-> type, uses |-> uses, extract |-> extract,
     headers |-> headers, expect |-> expect]

CreateOrder == Action("http", {}, {"order_id"}, None, None)
GetOrder == Action("http", {"order_id"}, {}, None, None)
TracedCall == Action("http", {}, {}, CustomCorrelation, None)
AssertStatus == Action("assert", {}, {}, None, "status_code")

ActionDefs == {CreateOrder, GetOrder, TracedCall, AssertStatus}

\* post-flow Assertions: _execute_assertion turns each into an AssertAction
AssertOrder == Action("assert", {"order_id"}, {}, None, "context_path")

AssertionDefs == {AssertStatus, AssertOrder}

SeqsUpTo(S, n) == UNION {[1 .. k -> S] : k \in 0 .. n}

StopCondition(action_fails, assertion_fails) ==
    [any_action_fails |-> action_fails, any_assertion_fails |-> assertion_fails]

Scenario(flow, assertions, stop_when) ==
    [flow |-> flow, assertions |-> assertions, stop_when |-> stop_when]

\* every scenario of up to MaxFlow steps and MaxAssertions assertions
Scenarios ==
    {Scenario(f, a, StopCondition(x, y)) :
        f \in SeqsUpTo(ActionDefs, MaxFlow),
        a \in SeqsUpTo(AssertionDefs, MaxAssertions),
        x \in BOOLEAN, y \in BOOLEAN}

\* the scenarios run by several instances at once
RunScenarios ==
    {Scenario(f, a, StopCondition(x, FALSE)) :
        f \in {<<CreateOrder, GetOrder>>, <<TracedCall, AssertStatus>>},
        a \in {<<>>, <<AssertOrder>>},
        x \in BOOLEAN}

\* WorkflowContext default factories: identifiers unique per instance
correlation_id(i) == "corr_" \o ToString(i)
instance_id(i) == "inst_" \o ToString(i)

\* state after ArtifactStore.initialize(), TemplateEngine() and
\* ParallelExecutor(parallelism=parallelism, console=console)
RunConstructed ==
    /\ workflow = "run"
    /\ service_headers \in {None, CustomCorrelation}
    /\ default_headers = [r \in 0 .. total_instances |-> None]
    /\ inst = <<>>
    /\ requests = {}
    /\ steps_jsonl = <<>>
    /\ assertions_jsonl = <<>>
    /\ instances_jsonl = <<>>
    /\ ExecInit
    /\ RetryIdle
    /\ ActionsIdle

RunInit ==
    /\ total_instances \in 1 .. RunInstances
    /\ parallelism \in {ClampParallelism(p) : p \in 1 .. MaxParallel}
    /\ scenario \in RunScenarios
    /\ RunConstructed

FlowInit ==
    /\ total_instances = 1
    /\ parallelism = ClampParallelism(1)
    /\ scenario \in Scenarios
    /\ RunConstructed

\* ----------------------------------------------------------- pure helpers

model_copy_shared(i) == 0

\* sut_config.model_copy(deep=True): the config object instance i works on;
\* 0 is the run's shared sut_config, i + 1 a copy owned by instance i
model_copy(i) == i + 1

\* TemplateEngine.render_dict fails on the variables the context lacks
MissingVars(action, context) == action.uses \ context

\* str(TemplateError) raised by render_string
TemplateErrorMessage(name) == "Variable '" \o name \o "' not found in context"

\* HttpActionRunner.execute: default -> service -> action, later wins
MergeHeaders(default, service, action) ==
    IF action # None THEN action
    ELSE IF service # None THEN service
    ELSE default

\* ok = 200 <= status_code < 300; a status_code of None is the empty set
IsOk(status_code) == \E c \in status_code : c >= 200 /\ c < 300

\* what the SUT may answer: 200, 500, or no response (timeout)
Responses == {{200}, {500}, {}}

\* Observation.errors of an HTTP step
HttpErrors(status_code, extract_missed) ==
    IF status_code = {} THEN <<"Request timeout">>
    ELSE IF ~IsOk(status_code) THEN <<"HTTP error status">>
    ELSE IF extract_missed THEN <<"JSONPath did not match any values">>
    ELSE <<>>

Observation(ok, status_code, errors) ==
    [ok |-> ok, status_code |-> status_code, errors |-> errors]

\* AssertActionRunner._evaluate_expectation on the instance's context
EvaluateExpectation(expect, L) ==
    IF expect = "status_code" THEN L.last_response = {200}
    ELSE IF expect = "context_path" THEN "order_id" \in L.context
    ELSE FALSE

WriteLine_Prepend(file, record) == <<record>> \o file

\* JSONLWriter.write: one record appended as one line
WriteLine(file, record) == Append(file, record)

StepRecord(i, step_index, action, observation) ==
    [instance_id |-> instance_id(i), correlation_id |-> correlation_id(i),
     step_index |-> step_index, step_type |-> action.type,
     ok |-> observation.ok, errors |-> observation.errors]

AssertionRecord(i, step_index, passed) ==
    [instance_id |-> instance_id(i), correlation_id |-> correlation_id(i),
     step_index |-> step_index, passed |-> passed]

InstanceRecord(i, passed, error) ==
    [instance_id |-> instance_id(i), correlation_id |-> correlation_id(i),
     passed |-> passed, error |-> error]

\* the loop over scenario.assertions begins (or is empty)
EnterAssertions(L) ==
    [L EXCEPT !.ipc = IF Len(scenario.assertions) = 0
                      THEN "finish" ELSE "assertions"]

\* the loop over scenario.flow begins (or is empty)
EnterFlow(L) ==
    IF Len(scenario.flow) = 0 THEN EnterAssertions(L)
    ELSE [L EXCEPT !.ipc = "flow"]

OnInstanceException_NoError(L, msg) ==
    [L EXCEPT !.passed = "False", !.ipc = "finish"]

\* `except Exception as exc` of execute_instance
OnInstanceException(L, msg) ==
    [L EXCEPT !.passed = "False", !.error = msg, !.ipc = "finish"]

\* execute_flow: `if not observation.ok and stop_when.any_action_fails`
ShouldStopFlow(ok, any_action_fails) == ~ok /\ any_action_fails

ShouldStopAssertions_Never(ok, any_assertion_fails) == FALSE

\* execute_instance: `if not observation.ok: ... if any_assertion_fails`
ShouldStopAssertions(ok, any_assertion_fails) == ~ok /\ any_assertion_fails

\* the loop body of execute_instance after a step yielded `observation`,
\* then the generator's stop check and the move to the next step
AfterStep(L, observation) ==
    LET seen == [L EXCEPT
                   !.passed = IF observation.ok THEN @ ELSE "False",
                   !.trace = Append(@, IF observation.ok THEN "ok"
                                        ELSE "failed")]
    IN  IF \/ ShouldStopFlow(observation.ok, scenario.stop_when.any_action_fails)
           \/ L.step_index + 1 = Len(scenario.flow)
        THEN EnterAssertions(seen)
        ELSE [seen EXCEPT !.step_index = @ + 1]

\* ------------------------------------------------------------ run actions

\* execute_instance up to the flow loop: context, deep copy of the SUT
\* config, X-Correlation-ID default header
BeginInstance(i) ==
    /\ phase = "running"
    /\ UNCHANGED restVars
    /\ workflow = "run"
    /\ pc[i] = "exec"
    /\ inst[i].ipc = "idle"
    /\ LET instance_sut == model_copy(i)
       IN  /\ default_headers' =
                 [default_headers EXCEPT ![instance_sut] = correlation_id(i)]
           /\ inst' = [inst EXCEPT
                         ![i] = EnterFlow([@ EXCEPT !.sut = instance_sut])]
    /\ UNCHANGED execVars
    /\ UNCHANGED <<scenario, service_headers, requests, steps_jsonl,
                   assertions_jsonl, instances_jsonl>>

\* _render_action raises TemplateError: the exception leaves execute_flow
\* and the `async for`, and reaches the except clause of execute_instance
RenderFails(i, L, missing) ==
    LET msg == TemplateErrorMessage(CHOOSE n \in missing : TRUE)
    IN  /\ inst' = [inst EXCEPT ![i] = OnInstanceException(
                        [L EXCEPT !.trace = Append(@, "render_error"),
                                  !.raised = msg], msg)]
        /\ UNCHANGED <<requests, steps_jsonl, assertions_jsonl>>

\* an HTTP step: one request with the merged headers, the response, the
\* extraction into a new context, last_response, write_step
HttpStep(i, L, action) ==
    \E status_code \in Responses, hit \in BOOLEAN :
        LET ok == IsOk(status_code)
            extracts == ok /\ action.extract # {}
            observation ==
                Observation(ok, status_code,
                            HttpErrors(status_code, extracts /\ ~hit))
            updated == [L EXCEPT
                          !.context = IF extracts /\ hit
                                      THEN @ \cup action.extract ELSE @,
                          !.last_response = status_code]
        IN  /\ (hit => extracts)
            /\ requests' = requests \cup
                  {[instance |-> i, step_index |-> L.step_index,
                    correlation_header |->
                        MergeHeaders(default_headers[L.sut], service_headers,
                                     action.headers)]}
            /\ steps_jsonl' = WriteLine(steps_jsonl,
                  StepRecord(i, L.step_index, action, observation))
            /\ inst' = [inst EXCEPT ![i] = AfterStep(updated, observation)]
            /\ UNCHANGED assertions_jsonl

\* an assert step of the flow: write_step, then _write_assertion
AssertStep(i, L, action) ==
    LET passed == EvaluateExpectation(action.expect, L)
        observation ==
            Observation(passed, {},
                        IF passed THEN <<>> ELSE <<"assertion failed">>)
    IN  /\ steps_jsonl' = WriteLine(steps_jsonl,
              StepRecord(i, L.step_index, action, observation))
        /\ assertions_jsonl' = WriteLine(assertions_jsonl,
              AssertionRecord(i, L.step_index, passed))
        /\ inst' = [inst EXCEPT ![i] = AfterStep(L, observation)]
        /\ UNCHANGED requests

\* one iteration of ScenarioRunner.execute_flow and of the `async for` body
FlowStep(i) ==
    /\ phase = "running"
    /\ UNCHANGED restVars
    /\ workflow = "run"
    /\ pc[i] = "exec"
    /\ inst[i].ipc = "flow"
    /\ LET L == inst[i]
           action == scenario.flow[L.step_index + 1]
           missing == MissingVars(action, L.context)
       IN  IF missing # {} THEN RenderFails(i, L, missing)
           ELSE IF action.type = "http" THEN HttpStep(i, L, action)
           ELSE AssertStep(i, L, action)
    /\ UNCHANGED execVars
    /\ UNCHANGED <<scenario, service_headers, default_headers,
                   instances_jsonl>>

\* one iteration of the loop over scenario.assertions
AssertionStep(i) ==
    /\ phase = "running"
    /\ UNCHANGED restVars
    /\ workflow = "run"
    /\ pc[i] = "exec"
    /\ inst[i].ipc = "assertions"
    /\ LET L == inst[i]
           assertion == scenario.assertions[L.assertion_index + 1]
           missing == MissingVars(assertion, L.context)
           passed == EvaluateExpectation(assertion.expect, L)
           seen == [L EXCEPT !.passed = IF passed THEN @ ELSE "False",
                             !.evaluated = Append(@, passed)]
       IN  IF missing # {}
           THEN /\ inst' = [inst EXCEPT ![i] = OnInstanceException(
                       [L EXCEPT !.raised = TemplateErrorMessage(
                                     CHOOSE n \in missing : TRUE)],
                       TemplateErrorMessage(CHOOSE n \in missing : TRUE))]
                /\ UNCHANGED assertions_jsonl
           ELSE /\ assertions_jsonl' = WriteLine(assertions_jsonl,
                       AssertionRecord(i, Len(scenario.flow)
                                          + L.assertion_index, passed))
                /\ inst' = [inst EXCEPT ![i] =
                       IF \/ ShouldStopAssertions(passed,
                                scenario.stop_when.any_assertion_fails)
                          \/ L.assertion_index + 1 = Len(scenario.assertions)
                       THEN [seen EXCEPT !.ipc = "finish"]
                       ELSE [seen EXCEPT !.assertion_index = @ + 1]]
    /\ UNCHANGED execVars
    /\ UNCHANGED <<scenario, service_headers, default_headers, requests,
                   steps_jsonl, instances_jsonl>>

\* write_instance, return InstanceResult, and the executor's _record_result
FinishInstance(i) ==
    /\ phase = "running"
    /\ UNCHANGED restVars
    /\ workflow = "run"
    /\ pc[i] = "exec"
    /\ inst[i].ipc = "finish"
    /\ instances_jsonl' = WriteLine(instances_jsonl,
          InstanceRecord(i, inst[i].passed, inst[i].error))
    /\ inst' = [inst EXCEPT ![i].ipc = "returned"]
    /\ RecordAndRelease(i, InstanceResult(instance_id(i), inst[i].passed,
                                          inst[i].error))
    /\ UNCHANGED <<phase, workflow, total_instances, parallelism,
                   cancel_requested, exec_raised, exec_after_cancel,
                   in_flight_at_cancel>>
    /\ UNCHANGED <<scenario, service_headers, default_headers, requests,
                   steps_jsonl, assertions_jsonl>>

RunNext ==
    \/ Execute
    \/ request_cancel
    \/ \E i \in Instances : StartTask(i)
    \/ \E i \in Instances : AcquireSemaphore(i)
    \/ \E i \in Instances : BeginInstance(i)
    \/ \E i \in Instances : FlowStep(i)
    \/ \E i \in Instances : AssertionStep(i)
    \/ \E i \in Instances : FinishInstance(i)
    \/ ExecuteReturn

RunSpec == RunInit /\ [][RunNext]_vars

FlowSpec == FlowInit /\ [][RunNext]_vars

\* --------------------------------------------------------------- run claims

\* the lines of a file that instance i wrote, in file order
RecordsOf(file, i) == SelectSeq(file, LAMBDA r : r.instance_id = instance_id(i))

\* the instance has left the flow loop
PastFlow(L) == L.ipc \in {"assertions", "finish", "returned"}

\* C4: at the end of a run of N instances, lines(instances.jsonl) + cancelled
\* = N: every instance that started wrote exactly one instance record, and
\* an instance whose flow raised wrote its record with passed=false and the
\* error set, the exception never reaching the run.
C4_InstanceRecords ==
    phase = "returned" =>
        /\ Len(instances_jsonl) + stats.cancelled = total_instances
        /\ task_exception = {}
        /\ \A i \in Instances :
              Len(RecordsOf(instances_jsonl, i))
                  = IF i \in BeganExec THEN 1 ELSE 0
        /\ \A i \in Instances :
              inst[i].raised # None =>
                  /\ RecordsOf(instances_jsonl, i)[1].passed = "False"
                  /\ RecordsOf(instances_jsonl, i)[1].error = inst[i].raised

\* C4 witness: a finished run in which one instance was cancelled and
\* another wrote its record after its flow raised
C4_Witness ==
    /\ phase = "returned"
    /\ stats.cancelled > 0
    /\ \E i \in Instances :
          /\ inst[i].raised # None
          /\ Len(RecordsOf(instances_jsonl, i)) = 1

\* the flow steps of an instance that yielded an observation
Observed(L) == SelectSeq(L.trace, LAMBDA o : o # "render_error")

\* C5: for every instance the step records in steps.jsonl carry step_index
\* 0, 1, 2, ... in file order, without gaps, one per step that produced an
\* observation, however the records of other instances lie between them.
C5_StepsInFlowOrder ==
    \A i \in DOMAIN inst :
        LET recs == RecordsOf(steps_jsonl, i)
        IN  /\ Len(recs) = Len(Observed(inst[i]))
            /\ \A k \in 1 .. Len(recs) : recs[k].step_index = k - 1

\* C5 witness: a record of another instance lies between step 0 and step 1
\* of one instance
C5_Witness ==
    \E a, b, c \in 1 .. Len(steps_jsonl) :
        /\ a < b /\ b < c
        /\ steps_jsonl[a].instance_id = steps_jsonl[c].instance_id
        /\ steps_jsonl[b].instance_id # steps_jsonl[a].instance_id
        /\ steps_jsonl[a].step_index = 0
        /\ steps_jsonl[c].step_index = 1

\* every record written for instance i carries i's correlation_id
RecordsCarryCorrelation ==
    \A i \in DOMAIN inst :
        /\ \A k \in 1 .. Len(steps_jsonl) :
              steps_jsonl[k].instance_id = instance_id(i)
                  => steps_jsonl[k].correlation_id = correlation_id(i)
        /\ \A k \in 1 .. Len(assertions_jsonl) :
              assertions_jsonl[k].instance_id = instance_id(i)
                  => assertions_jsonl[k].correlation_id = correlation_id(i)
        /\ \A k \in 1 .. Len(instances_jsonl) :
              instances_jsonl[k].instance_id = instance_id(i)
                  => instances_jsonl[k].correlation_id = correlation_id(i)

\* C6 as stated: every HTTP request of an instance carries X-Correlation-ID
\* equal to the instance's correlation_id, which is also the correlation_id
\* of every record written for it.
C6_EveryRequestCarriesCorrelation ==
    /\ \A r \in requests : r.correlation_header = correlation_id(r.instance)
    /\ RecordsCarryCorrelation

\* the request takes X-Correlation-ID from the instance's default headers
NotOverridden(r) ==
    /\ service_headers = None
    /\ scenario.flow[r.step_index + 1].headers = None

\* C6 amended: every HTTP request of an instance whose service headers and
\* action headers do not themselves set X-Correlation-ID carries the
\* instance's correlation_id, also while other instances run; every record
\* written for the instance carries the same correlation_id.
C6_CorrelationUnlessOverridden ==
    /\ \A r \in requests :
          NotOverridden(r) => r.correlation_header = correlation_id(r.instance)
    /\ RecordsCarryCorrelation

\* C6 witness: two instances are inside exec at once and both have sent a
\* request with their own correlation id
C6_Witness ==
    \E r1, r2 \in requests :
        /\ r1.instance # r2.instance
        /\ NotOverridden(r1) /\ NotOverridden(r2)
        /\ pc[r1.instance] = "exec" /\ pc[r2.instance] = "exec"
        /\ r1.correlation_header = correlation_id(r1.instance)
        /\ r2.correlation_header = correlation_id(r2.instance)

\* C7: with stop_when.any_action_fails, once a flow step yields ok=false no
\* later flow step is rendered, executed or recorded; without the flag every
\* flow step is executed.
C7_StopOnActionFailure ==
    \A i \in DOMAIN inst :
        LET t == inst[i].trace
        IN  /\ scenario.stop_when.any_action_fails =>
                  \A k \in 1 .. Len(t) : t[k] = "failed" => k = Len(t)
            /\ Len(RecordsOf(steps_jsonl, i)) <= Len(t)
            /\ (~scenario.stop_when.any_action_fails /\ PastFlow(inst[i]))
                  => Len(t) = Len(scenario.flow)

\* the part of C7 that does not depend on how a rendering error is handled
C7_StopOnFailedObservation ==
    \A i \in DOMAIN inst :
        LET t == inst[i].trace
        IN  /\ scenario.stop_when.any_action_fails =>
                  \A k \in 1 .. Len(t) : t[k] = "failed" => k = Len(t)
            /\ Len(RecordsOf(steps_jsonl, i)) <= Len(t)
            /\ (/\ ~scenario.stop_when.any_action_fails
                /\ PastFlow(inst[i])
                /\ inst[i].raised = None)
                  => Len(t) = Len(scenario.flow)

\* C8: a flow step whose rendering fails on a missing template variable
\* yields a recorded Observation with ok=false and the error "Variable
\* '<name>' not found in context", and the instance goes on to the next
\* flow step unless stop_when.any_action_fails is set.
C8_MissingVariableObservation ==
    \A i \in DOMAIN inst :
        LET t == inst[i].trace
        IN  \A k \in 1 .. Len(t) :
                t[k] = "render_error" =>
                    /\ \E n \in 1 .. Len(steps_jsonl) :
                          /\ steps_jsonl[n].instance_id = instance_id(i)
                          /\ steps_jsonl[n].step_index = k - 1
                          /\ steps_jsonl[n].ok = FALSE
                          /\ steps_jsonl[n].errors
                                = <<TemplateErrorMessage("order_id")>>
                    /\ (~scenario.stop_when.any_action_fails
                           /\ k < Len(scenario.flow))
                          => inst[i].ipc = "flow" /\ inst[i].step_index = k

\* the post-flow assertion records of instance i, in file order
PostFlowRecords(i) ==
    SelectSeq(RecordsOf(assertions_jsonl, i),
              LAMBDA r : r.step_index >= Len(scenario.flow))

\* C9: post-flow assertions are evaluated after the flow in declaration
\* order, one assertion record per evaluated assertion; with
\* stop_when.any_assertion_fails no assertion is evaluated or recorded after
\* a failed one; any failed assertion makes the instance passed=false.
C9_PostFlowAssertions ==
    \A i \in DOMAIN inst :
        LET ev == inst[i].evaluated
            recs == PostFlowRecords(i)
        IN  /\ Len(ev) > 0 => PastFlow(inst[i])
            /\ Len(recs) = Len(ev)
            /\ \A k \in 1 .. Len(recs) :
                  /\ recs[k].step_index = Len(scenario.flow) + k - 1
                  /\ recs[k].passed = ev[k]
            /\ scenario.stop_when.any_assertion_fails =>
                  \A k \in 1 .. Len(ev) : ~ev[k] => k = Len(ev)
            /\ \A n \in 1 .. Len(RecordsOf(instances_jsonl, i)) :
                  (\E k \in 1 .. Len(RecordsOf(assertions_jsonl, i)) :
                      ~RecordsOf(assertions_jsonl, i)[k].passed)
                  => RecordsOf(instances_jsonl, i)[n].passed = "False"

\* C9 witness: with the flag set the first of two post-flow assertions
\* failed, the second was skipped, and the instance record says failed
C9_Witness ==
    /\ scenario.stop_when.any_assertion_fails
    /\ Len(scenario.assertions) = 2
    /\ \E i \in DOMAIN inst :
          /\ inst[i].evaluated = <<FALSE>>
          /\ inst[i].raised = None
          /\ Len(RecordsOf(instances_jsonl, i)) = 1
          /\ RecordsOf(instances_jsonl, i)[1].passed = "False"

\* ======================================================================
\* utils/retry_policy.py::with_retry
\* ======================================================================

\* what func() may return and raise
Results == {"ready", "pending"}
Exceptions == {"transient", "fatal"}

Min(a, b) == IF a <= b THEN a ELSE b

\* the state in which with_retry(func, config, is_retryable,
\* should_retry_result) is called
RetryInit ==
    /\ config \in [max_attempts : 0 .. MaxAttempts,
                   strategy : {"fixed", "exponential"},
                   delay_seconds : {1}, max_delay_seconds : {3}]
    /\ is_retryable \in [Exceptions -> BOOLEAN]
    /\ should_retry_result \in [Results -> BOOLEAN]
    /\ retry_pc = "start"
    /\ attempt = 0
    /\ last_exception = None
    /\ last_result = None
    /\ retry_outcome = None
    /\ calls = <<>>
    /\ sleeps = <<>>
    /\ workflow = "none"
    /\ total_instances = 0
    /\ parallelism = ClampParallelism(1)
    /\ ExecInit
    /\ RunIdle
    /\ ActionsIdle

\* _calculate_delay(config, attempt)
CalculateDelay(cfg, att) ==
    IF cfg.strategy = "exponential"
    THEN Min(cfg.delay_seconds * (2 ^ (att - 1)), cfg.max_delay_seconds)
    ELSE cfg.delay_seconds

ShouldRetryResult_NoLimit(att, result) == should_retry_result[result]

\* `attempt < config.max_attempts and should_retry_result(result)`
ShouldRetryResult(att, result) ==
    att < config.max_attempts /\ should_retry_result[result]

\* `attempt == config.max_attempts or not is_retryable(e)`
GivesUpOnException(att, e) ==
    att = config.max_attempts \/ ~is_retryable[e]

AfterLoop_ResultFirst(exception, result) ==
    IF result # None
    THEN retry_pc' = "returned" /\ retry_outcome' = result
    ELSE retry_pc' = "raised" /\ retry_outcome' = exception

\* the code after the for loop: raise last_exception or return last_result
AfterLoop(exception, result) ==
    IF exception # None
    THEN retry_pc' = "raised" /\ retry_outcome' = exception
    ELSE retry_pc' = "returned" /\ retry_outcome' = result

\* the for loop is entered (or has no iteration)
RetryStart ==
    /\ retry_pc = "start"
    /\ IF config.max_attempts >= 1
       THEN attempt' = 1 /\ retry_pc' = "call" /\ UNCHANGED retry_outcome
       ELSE AfterLoop(last_exception, last_result) /\ UNCHANGED attempt
    /\ UNCHANGED <<config, is_retryable, should_retry_result, last_exception,
                   last_result, calls, sleeps>>
    /\ UNCHANGED <<execVars, runVars, actionVars>>

\* func() returns a result
RetryCallReturns ==
    /\ retry_pc = "call"
    /\ \E result \in Results :
          /\ calls' = Append(calls, [attempt |-> attempt, kind |-> "result",
                                     value |-> result])
          /\ IF ShouldRetryResult(attempt, result)
             THEN /\ last_result' = result
                  /\ retry_pc' = "sleep"
                  /\ UNCHANGED retry_outcome
             ELSE /\ retry_pc' = "returned"
                  /\ retry_outcome' = result
                  /\ UNCHANGED last_result
    /\ UNCHANGED <<config, is_retryable, should_retry_result, attempt,
                   last_exception, sleeps>>
    /\ UNCHANGED <<execVars, runVars, actionVars>>

\* func() raises an Exception
RetryCallRaises ==
    /\ retry_pc = "call"
    /\ \E e \in Exceptions :
          /\ calls' = Append(calls, [attempt |-> attempt,
                                     kind |-> "exception", value |-> e])
          /\ last_exception' = e
          /\ IF GivesUpOnException(attempt, e)
             THEN AfterLoop(e, last_result) /\ UNCHANGED last_result
             ELSE /\ last_result' = None
                  /\ retry_pc' = "sleep"
                  /\ UNCHANGED retry_outcome
    /\ UNCHANGED <<config, is_retryable, should_retry_result, attempt, sleeps>>
    /\ UNCHANGED <<execVars, runVars, actionVars>>

\* func() raises CancelledError or KeyboardInterrupt: re-raised at once
RetryCallCancelled ==
    /\ retry_pc = "call"
    /\ calls' = Append(calls, [attempt |-> attempt, kind |-> "cancelled",
                               value |-> "CancelledError"])
    /\ retry_pc' = "raised"
    /\ retry_outcome' = "CancelledError"
    /\ UNCHANGED <<config, is_retryable, should_retry_result, attempt,
                   last_exception, last_result, sleeps>>
    /\ UNCHANGED <<execVars, runVars, actionVars>>

\* asyncio.sleep(delay), then the next iteration of the for loop
RetrySleep ==
    /\ retry_pc = "sleep"
    /\ sleeps' = Append(sleeps, [after |-> attempt,
                                 delay |-> CalculateDelay(config, attempt)])
    /\ IF attempt + 1 <= config.max_attempts
       THEN attempt' = attempt + 1 /\ retry_pc' = "call"
                                   /\ UNCHANGED retry_outcome
       ELSE AfterLoop(last_exception, last_result) /\ UNCHANGED attempt
    /\ UNCHANGED <<config, is_retryable, should_retry_result, last_exception,
                   last_result, calls>>
    /\ UNCHANGED <<execVars, runVars, actionVars>>

RetryNext ==
    \/ RetryStart
    \/ RetryCallReturns
    \/ RetryCallRaises
    \/ RetryCallCancelled
    \/ RetrySleep

RetrySpec == RetryInit /\ [][RetryNext]_vars

\* ------------------------------------------------------------- retry claims

RetryFinished == retry_pc \in {"returned", "raised"}

\* the caller's predicates select the outcome of call c for a retry
SelectedForRetry(c) ==
    \/ c.kind = "exception" /\ is_retryable[c.value]
    \/ c.kind = "result" /\ should_retry_result[c.value]

\* C10: with_retry calls the operation once per attempt and makes another
\* attempt exactly when the attempt number is below max_attempts and the
\* attempt raised an exception is_retryable accepts or returned a result
\* should_retry_result accepts; so the operation runs at most max_attempts
\* times, exactly once for max_attempts = 1, and a backoff sleep happens
\* only between two attempts.
C10_RetryAttempts ==
    retry_pc # "idle" =>
        /\ Len(calls) <= config.max_attempts
        /\ \A k \in 1 .. Len(calls) : calls[k].attempt = k
        /\ \A k \in 1 .. Len(calls) :
              (k < Len(calls) \/ retry_pc \in {"call", "sleep"})
                  => (k < config.max_attempts /\ SelectedForRetry(calls[k]))
        /\ (RetryFinished /\ Len(calls) > 0) =>
              ~(/\ Len(calls) < config.max_attempts
                /\ SelectedForRetry(calls[Len(calls)]))
        /\ (RetryFinished /\ config.max_attempts = 1) => Len(calls) = 1
        /\ \A k \in 1 .. Len(sleeps) : sleeps[k].after = k /\ k <= Len(calls)
        /\ RetryFinished => Len(sleeps) = Max(Len(calls) - 1, 0)
        /\ retry_pc = "call" => Len(sleeps) = Len(calls)

\* C10 witness: three attempts with max_attempts = 3, the first raised a
\* retryable exception, the second returned a retryable result, two sleeps
C10_Witness ==
    /\ RetryFinished
    /\ config.max_attempts = 3
    /\ Len(calls) = 3
    /\ calls[1].kind = "exception"
    /\ calls[2].kind = "result"
    /\ SelectedForRetry(calls[3])
    /\ Len(sleeps) = 2

LastCall == calls[Len(calls)]

\* C11: with_retry ends by raising the exception of the last attempt when
\* that attempt raised, and by returning the result of the last attempt when
\* it returned (also a result should_retry_result still selects); an
\* exception of an earlier attempt is never raised after a later attempt
\* returned a result.
C11_LastAttemptDecides ==
    (RetryFinished /\ Len(calls) > 0) =>
        /\ LastCall.kind = "exception" =>
              retry_pc = "raised" /\ retry_outcome = LastCall.value
        /\ LastCall.kind = "result" =>
              retry_pc = "returned" /\ retry_outcome = LastCall.value
        /\ LastCall.kind = "cancelled" =>
              retry_pc = "raised" /\ retry_outcome = "CancelledError"

\* C11 witness: an earlier attempt raised, the last attempt returned a result
\* that should_retry_result still selects, and that result is returned
C11_Witness ==
    /\ RetryFinished
    /\ Len(calls) = config.max_attempts
    /\ Len(calls) >= 2
    /\ calls[1].kind = "exception"
    /\ LastCall.kind = "result"
    /\ should_retry_result[LastCall.value]
    /\ retry_pc = "returned"

\* =========================================================================
\* actions/http.py : HttpActionRunner.execute(context)
\* =========================================================================
\* A Python dict is the set of its <<key, value>> items; None of an
\* Optional[int] or Optional[RetryConfig] is the empty set, a value v is {v}.

DictKeys(d) == {p[1] : p \in d}

\* d[k] = v
DictSet(d, k, v) == {p \in d : p[1] # k} \cup {<<k, v>>}

\* the names an action's extract map may bind ($.<name> each)
ExtractKeys == {"order_id"}

\* action.retry: None or a RetryConfig (max_attempts > 0)
RetryConfigs ==
    {{}} \cup
    {{rc} : rc \in [max_attempts : 1 .. MaxAttempts,
                    on_status : {{}, {500}},
                    on_timeout : BOOLEAN,
                    on_connection_error : BOOLEAN]}

\* the contexts execute() is called with
Contexts ==
    {{<<"run_id", "run_1">>},
     {<<"run_id", "run_1">>, <<"order_id", "old">>}}

\* response bodies: JSON null, or a JSON object given by its items
Body(json, fields) == [json |-> json, fields |-> fields]
NullBody == Body("null", {})
Bodies == {NullBody, Body("object", {}),
           Body("object", {<<"order_id", "new">>})}

\* what one client.request(...) call may produce: a response, or one of
\* the exceptions the except clauses of lines 125-137 tell apart
HttpResponses ==
    {[kind |-> "response", status |-> 200, body |-> b] : b \in Bodies}
    \cup {[kind |-> "response", status |-> s, body |-> Body("object", {})] :
              s \in {404, 500}}
HttpExceptions ==
    {[kind |-> k, status |-> 0, body |-> NullBody] :
        k \in {"ReadTimeout", "ConnectTimeout", "ConnectError",
               "RequestError", "Exception"}}

\* dict(response.headers) of any response
ResponseHeaders == {<<"content-type", "application/json">>}

\* httpx.ConnectTimeout is a subclass of httpx.TimeoutException, so the
\* first except clause (line 125) takes it
IsTimeoutException(k) == k \in {"ReadTimeout", "ConnectTimeout"}

\* the message the except clauses append to current_errors
ClassifiedError(k) ==
    IF IsTimeoutException(k) THEN "Request timeout"
    ELSE IF k = "ConnectError" THEN "Connection error"
    ELSE IF k = "RequestError" THEN "Request error"
    ELSE "Unexpected error"

StatusError(s) == "HTTP " \o ToString(s)

\* max_attempts = retry_config.max_attempts if retry_config else 1
HttpMaxAttempts(retry_config) ==
    IF retry_config = {} THEN 1
    ELSE (CHOOSE rc \in retry_config : TRUE).max_attempts

HttpShouldRetry_Always(retry_config, outcome) == TRUE

\* should_retry as lines 120-137 set it
HttpShouldRetry(retry_config, outcome) ==
    \E rc \in retry_config :
        IF outcome.kind = "response"
        THEN ~IsOk({outcome.status}) /\ outcome.status \in rc.on_status
        ELSE IF IsTimeoutException(outcome.kind) THEN rc.on_timeout
        ELSE IF outcome.kind = "ConnectError" THEN rc.on_connection_error
        ELSE FALSE

\* the state in which execute(context) is entered: the action's retry and
\* extract, the caller's dict at heap[1], the locals of lines 87-94
HttpCall(retry_config, extract, context) ==
    [pc |-> "request", retry_config |-> retry_config, extract |-> extract,
     heap |-> <<context>>, context |-> 1, updated_context |-> 0,
     attempt_idx |-> 1, attempts |-> <<>>,
     response_body |-> NullBody, response_headers |-> {},
     status_code |-> {}, final_errors |-> <<>>, ok |-> FALSE,
     observation |-> {},
     \* history: the dict as it was given, the outcome of every request
     given |-> context, sent |-> <<>>]

\* the other components are not running
ComponentsIdle ==
    /\ workflow = "none"
    /\ total_instances = 0
    /\ parallelism = ClampParallelism(1)
    /\ ExecInit
    /\ RunIdle
    /\ RetryIdle
    /\ StorageIdle
    /\ EvaluationIdle
    /\ SignalsIdle

HttpInit ==
    /\ http \in {HttpCall(rc, ex, ctx) : rc \in RetryConfigs,
                                         ex \in SUBSET ExtractKeys,
                                         ctx \in Contexts}
    /\ ComponentsIdle
    /\ TurbIdle
    /\ WaitIdle

dict_copy_alias(heap, ref) == [heap |-> heap, ref |-> ref]

\* dict(context): a new dict object with the same items
dict_copy(heap, ref) == [heap |-> Append(heap, heap[ref]), ref |-> Len(heap) + 1]

\* the keys of the extract map whose JSONPath finds a value in the body
ExtractHits(body, extract) == extract \cap DictKeys(body.fields)

\* _extract_values: context[key] = matches[0].value for every hit
ExtractValues(dict, body, extract) ==
    {p \in dict : p[1] \notin ExtractHits(body, extract)}
    \cup {p \in body.fields : p[1] \in ExtractHits(body, extract)}

RECURSIVE ExtractionErrors(_)
\* _extract_values: one message per key whose JSONPath matched nothing
ExtractionErrors(missed) ==
    IF missed = {} THEN <<>>
    ELSE LET k == CHOOSE x \in missed : TRUE
         IN  <<"JSONPath '$." \o k \o "' did not match any values">>
             \o ExtractionErrors(missed \ {k})

\* lines 176-202: build the Observation, copy the context, extract
HttpReturn(h) ==
    LET copy == dict_copy(h.heap, h.context)
        extracting == h.ok /\ h.response_body.json # "null" /\ h.extract # {}
        missed == h.extract \ ExtractHits(h.response_body, h.extract)
        errors == IF extracting
                  THEN h.final_errors \o ExtractionErrors(missed)
                  ELSE h.final_errors
    IN  [h EXCEPT
            !.pc = "done",
            !.updated_context = copy.ref,
            !.heap = IF extracting
                     THEN [copy.heap EXCEPT ![copy.ref] =
                              ExtractValues(@, h.response_body, h.extract)]
                     ELSE copy.heap,
            !.observation = {[ok |-> h.ok, status_code |-> h.status_code,
                              headers |-> h.response_headers,
                              body |-> h.response_body, errors |-> errors,
                              attempts |-> h.attempts]}]

\* one iteration of the attempt loop (lines 96-174) around a request that
\* ended with `outcome`
HttpAttempt(outcome) ==
    LET h == http
        got == outcome.kind = "response"
        is_last_attempt == h.attempt_idx = HttpMaxAttempts(h.retry_config)
        status_code == IF got THEN {outcome.status} ELSE h.status_code
        ok == IF got THEN IsOk({outcome.status}) ELSE h.ok
        current_errors ==
            IF got THEN (IF ok THEN <<>> ELSE <<StatusError(outcome.status)>>)
            ELSE <<ClassifiedError(outcome.kind)>>
        should_retry == HttpShouldRetry(h.retry_config, outcome)
        after ==
            [h EXCEPT
                !.status_code = status_code,
                !.response_headers = IF got THEN ResponseHeaders ELSE @,
                !.response_body = IF got THEN outcome.body ELSE @,
                !.ok = ok,
                !.attempts = Append(@,
                    [attempt |-> h.attempt_idx, status_code |-> status_code,
                     ok |-> ok,
                     error |-> IF current_errors = <<>> THEN None
                               ELSE current_errors[1]]),
                !.sent = Append(@, outcome)]
    IN  IF ok THEN http' = HttpReturn(after)
        ELSE IF should_retry /\ ~is_last_attempt
             THEN http' = [after EXCEPT !.pc = "sleep"]
        ELSE http' = HttpReturn([after EXCEPT !.final_errors = current_errors])

\* the request is answered
HttpResponse ==
    /\ http.pc = "request"
    /\ \E outcome \in HttpResponses : HttpAttempt(outcome)
    /\ UNCHANGED httpOthers

\* the request raises
HttpRequestFails ==
    /\ http.pc = "request"
    /\ \E outcome \in HttpExceptions : HttpAttempt(outcome)
    /\ UNCHANGED httpOthers

\* asyncio.sleep(delay) returns: the next iteration of the loop
HttpBackoff ==
    /\ http.pc = "sleep"
    /\ http' = [http EXCEPT !.pc = "request", !.attempt_idx = @ + 1]
    /\ UNCHANGED httpOthers

HttpNext ==
    \/ HttpResponse
    \/ HttpRequestFails
    \/ HttpBackoff

HttpSpec == HttpInit /\ [][HttpNext]_vars

\* -------------------------------------------------------------- http claims

HttpDone == http.pc = "done"

Is2xx(outcome) == outcome.kind = "response" /\ IsOk({outcome.status})

\* the failure of a request is one the retry config selects: a status in
\* on_status, a timeout with on_timeout, a connection error with
\* on_connection_error (a connect timeout is both)
SelectedByConfig(retry_config, outcome) ==
    \E rc \in retry_config :
        \/ outcome.kind = "response" /\ outcome.status \in rc.on_status
        \/ outcome.kind \in {"ReadTimeout", "ConnectTimeout"} /\ rc.on_timeout
        \/ outcome.kind \in {"ConnectError", "ConnectTimeout"}
               /\ rc.on_connection_error

TheObservation == CHOOSE o \in http.observation : TRUE

\* C12: an HTTP action without retry config issues exactly one request
\* whatever the status; with one, a request is followed by another only if
\* it did not receive a 2xx, attempts remain and the config selects its
\* failure; attempts lists every request in attempt order with its ok, and
\* after a final 2xx the observation is ok with that status (500, 500, 200
\* with max_attempts 3 and on_status [500]: three entries, ok false, false,
\* true, observation ok with 200).
C12_HttpAttempts ==
    http.pc # "idle" =>
        /\ (HttpDone /\ http.retry_config = {}) => Len(http.sent) = 1
        /\ Len(http.sent) <= HttpMaxAttempts(http.retry_config)
        /\ \A k \in 1 .. Len(http.sent) :
              (k < Len(http.sent) \/ http.pc \in {"sleep", "request"}) =>
                  /\ ~Is2xx(http.sent[k])
                  /\ k < HttpMaxAttempts(http.retry_config)
                  /\ SelectedByConfig(http.retry_config, http.sent[k])
        /\ Len(http.attempts) = Len(http.sent)
        /\ \A k \in 1 .. Len(http.attempts) :
              /\ http.attempts[k].attempt = k
              /\ http.attempts[k].ok = Is2xx(http.sent[k])
        /\ HttpDone =>
              /\ TheObservation.attempts = http.attempts
              /\ Is2xx(http.sent[Len(http.sent)]) =>
                    /\ TheObservation.ok
                    /\ TheObservation.status_code
                           = {http.sent[Len(http.sent)].status}

\* C12 witness: responses 500, 500, 200 under max_attempts 3, on_status [500]
C12_Witness ==
    /\ HttpDone
    /\ \E rc \in http.retry_config :
          rc.max_attempts = 3 /\ rc.on_status = {500}
    /\ Len(http.sent) = 3
    /\ http.sent[1].kind = "response" /\ http.sent[1].status = 500
    /\ http.sent[2].kind = "response" /\ http.sent[2].status = 500
    /\ http.sent[3].kind = "response" /\ http.sent[3].status = 200
    /\ Len(TheObservation.attempts) = 3
    /\ ~TheObservation.attempts[1].ok
    /\ ~TheObservation.attempts[2].ok
    /\ TheObservation.ok
    /\ TheObservation.status_code = {200}

\* C13: when the final attempt of an HTTP action raised, the Observation has
\* ok=false, no status_code, empty headers and errors holding exactly the
\* classified message of that failure, whatever earlier attempts received;
\* the attempt entry of a request that raised carries no status code.
C13_NetworkFailureObservation ==
    /\ \A k \in 1 .. Len(http.attempts) :
          http.sent[k].kind # "response" =>
              http.attempts[k].status_code = {}
    /\ (HttpDone /\ http.sent[Len(http.sent)].kind # "response") =>
          /\ ~TheObservation.ok
          /\ TheObservation.status_code = {}
          /\ TheObservation.headers = {}
          /\ TheObservation.errors =
                 <<ClassifiedError(http.sent[Len(http.sent)].kind)>>

\* the part of C13 that holds: ok=false and errors are those of the final
\* failure; status_code and headers are empty when no attempt got a response
C13_FirstAttemptFailure ==
    (HttpDone /\ http.sent[Len(http.sent)].kind # "response") =>
        /\ ~TheObservation.ok
        /\ TheObservation.errors =
               <<ClassifiedError(http.sent[Len(http.sent)].kind)>>
        /\ (\A k \in 1 .. Len(http.sent) : http.sent[k].kind # "response") =>
               /\ TheObservation.status_code = {}
               /\ TheObservation.headers = {}

\* C14: execute never modifies the dict it is given; it returns a new dict
\* equal to the input plus the extracted names when the final response is
\* 2xx, and equal to the input when the request failed or was not 2xx.
C14_ContextNotModified ==
    http.pc # "idle" =>
        /\ http.heap[http.context] = http.given
        /\ HttpDone =>
              LET last == http.sent[Len(http.sent)]
                  returned == http.heap[http.updated_context]
              IN  /\ http.updated_context # http.context
                  /\ Is2xx(last) =>
                        /\ \A p \in last.body.fields :
                              p[1] \in http.extract => p \in returned
                        /\ \A p \in returned :
                              p \in http.given
                              \/ (p[1] \in http.extract
                                  /\ p \in last.body.fields)
                        /\ \A p \in http.given :
                              p \in returned
                              \/ p[1] \in http.extract
                                     \cap DictKeys(last.body.fields)
                  /\ ~Is2xx(last) => returned = http.given

\* C14 witness: a 2xx response whose body binds a name the given context
\* already holds with another value
C14_Witness ==
    /\ HttpDone
    /\ Is2xx(http.sent[Len(http.sent)])
    /\ <<"order_id", "old">> \in http.given
    /\ <<"order_id", "new">> \in http.heap[http.updated_context]
    /\ <<"order_id", "old">> \in http.heap[http.context]

\* =========================================================================
\* turbulence/config.py : TurbulenceConfig.resolve(service, action)
\* =========================================================================

\* dict.get(key): None (the empty set) or the value
DictGet(d, k) == {p[2] : p \in {q \in d : q[1] = k}}

\* TurbulencePolicy(); every field is Optional and defaults to None
TurbulencePolicy == [latency_ms |-> {}, timeout_after_ms |-> {},
                     retry_count |-> {}]

LatencyConfig(min, max) == [min |-> min, max |-> max]

\* the policies a scope may hold, with a latency and a timeout of its own
ScopePolicies(latency, timeout_after) ==
    [latency_ms : {{}, {latency}}, timeout_after_ms : {{}, {timeout_after}},
     retry_count : {{}, {0}, {MaxRetryCount}}]

\* the pair resolve() is asked for
TheService == "api"
TheAction == "create_order"

\* the TurbulenceConfig objects resolve() is called on
TurbulenceConfigs ==
    LET globals == {{}} \cup {{p} : p \in ScopePolicies(LatencyConfig(1, 1), 100)}
        services == {{}, {<<"billing", TurbulencePolicy>>}}
                    \cup {{<<TheService, p>>} :
                             p \in ScopePolicies(LatencyConfig(2, 3), 200)}
        actions == {{}, {<<"cancel_order", TurbulencePolicy>>}}
                   \cup {{<<TheAction, p>>} :
                            p \in ScopePolicies(LatencyConfig(4, 4), 300)}
    IN  [global_policy : globals, services : services, actions : actions]

MergeInto_WholeObject(merged, policy) == policy

\* lines 69-74: the fields the policy sets replace those of merged
MergeInto(merged, policy) ==
    [latency_ms |-> IF policy.latency_ms # {} THEN policy.latency_ms
                    ELSE merged.latency_ms,
     timeout_after_ms |-> IF policy.timeout_after_ms # {}
                          THEN policy.timeout_after_ms
                          ELSE merged.timeout_after_ms,
     retry_count |-> IF policy.retry_count # {} THEN policy.retry_count
                     ELSE merged.retry_count]

RECURSIVE MergePolicies(_, _, _)
\* the loop of lines 65-74 from position i of policies on
MergePolicies(policies, i, acc) ==
    IF i > Len(policies) THEN acc
    ELSE IF policies[i] = {} THEN MergePolicies(policies, i + 1, acc)
    ELSE MergePolicies(policies, i + 1,
             [merged |-> MergeInto(acc.merged,
                                   CHOOSE p \in policies[i] : TRUE),
              has_policy |-> TRUE])

\* TurbulenceConfig.resolve: None (the empty set) or the merged policy
Resolve(cfg, service, action) ==
    LET policies == <<cfg.global_policy,
                      DictGet(cfg.services, service),
                      DictGet(cfg.actions, action)>>
        out == MergePolicies(policies, 1,
                   [merged |-> TurbulencePolicy, has_policy |-> FALSE])
    IN  IF out.has_policy THEN {out.merged} ELSE {}

\* resolve_policy is about to be called on a config
ResolveInit ==
    /\ turb \in {[pc |-> "resolve", config |-> c, policy |-> {}] :
                    c \in TurbulenceConfigs}
    /\ ComponentsIdle
    /\ HttpIdle
    /\ WaitIdle

\* engine.resolve_policy(service=..., action=...)
TurbResolve ==
    /\ turb.pc = "resolve"
    /\ turb' = [turb EXCEPT !.pc = "resolved",
                            !.policy = Resolve(turb.config, TheService,
                                               TheAction)]
    /\ UNCHANGED turbOthers

ResolveSpec == ResolveInit /\ [][TurbResolve]_vars

\* the policies that apply to the pair, least specific first
ScopesOf(cfg) ==
    <<cfg.global_policy, DictGet(cfg.services, TheService),
      DictGet(cfg.actions, TheAction)>>

\* scope n of the config sets field f
ScopeSets(cfg, n, f) == \E p \in ScopesOf(cfg)[n] : p[f] # {}

PolicyFields == {"latency_ms", "timeout_after_ms", "retry_count"}

\* C17: resolve returns, for each of latency, timeout_after and retry_count
\* independently, the value of the most specific scope (action, service,
\* global) that sets the field, no value when no scope sets it, and no
\* policy exactly when none of the three scopes is configured for the pair.
C17_ResolvePerField ==
    turb.pc = "resolved" =>
        /\ turb.policy = {}
              <=> \A n \in 1 .. 3 : ScopesOf(turb.config)[n] = {}
        /\ \A merged \in turb.policy : \A f \in PolicyFields :
              /\ (\A n \in 1 .. 3 : ~ScopeSets(turb.config, n, f))
                     => merged[f] = {}
              /\ \A n \in 1 .. 3 :
                    (/\ ScopeSets(turb.config, n, f)
                     /\ \A m \in (n + 1) .. 3 : ~ScopeSets(turb.config, m, f))
                    => \E p \in ScopesOf(turb.config)[n] : merged[f] = p[f]

\* C17 witness: the action scope sets only retry_count, the service scope
\* only the timeout, the global scope all three
C17_Witness ==
    /\ turb.pc = "resolved"
    /\ \E g \in turb.config.global_policy :
          g.latency_ms # {} /\ g.timeout_after_ms # {} /\ g.retry_count = {0}
    /\ \E merged \in turb.policy :
          /\ merged.latency_ms = {LatencyConfig(1, 1)}
          /\ merged.timeout_after_ms = {200}
          /\ merged.retry_count = {MaxRetryCount}

\* =========================================================================
\* turbulence/engine.py : TurbulenceEngine.apply(policy, context, execute)
\* =========================================================================

\* the policies apply() is called with (resolve never hands it None)
ApplyPolicies ==
    [latency_ms : {{}, {LatencyConfig(2, 3)}},
     timeout_after_ms : {{}, {200}},
     retry_count : {{}} \cup {{n} : n \in 0 .. MaxRetryCount}]

\* retry_count = policy.retry_count or 0
RetryCountOf(policy) ==
    IF policy.retry_count = {} THEN 0
    ELSE CHOOSE n \in policy.retry_count : TRUE

\* _pick_latency: None, or an integer of [min, max] fixed by the seed
PickLatency(policy) ==
    IF policy.latency_ms = {} THEN {{}}
    ELSE LET l == CHOOSE c \in policy.latency_ms : TRUE
         IN  {{n} : n \in l.min .. l.max}

\* what execute() = runner.execute(context) may return: an Observation and
\* a new context, the given one plus the extracted names when ok
ExecuteReturns(context) ==
    {[observation |-> Observation(TRUE, {200}, <<>>),
      context |-> DictSet(context, "order_id", "new")],
     [observation |-> Observation(TRUE, {200}, <<>>), context |-> context],
     [observation |-> Observation(FALSE, {500}, <<StatusError(500)>>),
      context |-> context]}

\* lines 77-87: the Observation and the context of an injected timeout
InjectedTimeout(policy, context) ==
    LET timeout_after == CHOOSE t \in policy.timeout_after_ms : TRUE
    IN  [observation |->
             Observation(FALSE, {}, <<"Injected timeout after "
                                      \o ToString(timeout_after) \o "ms">>),
         context |-> context]

TurbCall(policy, context) ==
    [pc |-> "attempt", policy |-> policy, context |-> context,
     attempts |-> 1 + RetryCountOf(policy), attempt |-> 0,
     info_attempts |-> <<>>, info_latency_ms |-> {},
     last_observation |-> {}, last_context |-> {}, result |-> {},
     \* history: what every execute() call did
     invoked |-> <<>>]

TurbInit ==
    /\ turb \in {TurbCall(p, ctx) : p \in ApplyPolicies, ctx \in Contexts}
    /\ ComponentsIdle
    /\ HttpIdle
    /\ WaitIdle

TurbRemember_KeepSuccess(t, produced) ==
    IF \E o \in t.last_observation : o.ok
    THEN [observation |-> t.last_observation, context |-> t.last_context]
    ELSE [observation |-> {produced.observation},
          context |-> {produced.context}]

\* lines 98-99: last_observation = observation; last_context = updated_context
TurbRemember(t, produced) ==
    [observation |-> {produced.observation}, context |-> {produced.context}]

TurbLoopEnds_OnSuccess(t, produced) ==
    t.attempt + 1 >= t.attempts \/ produced.observation.ok

\* `for attempt in range(attempts)` has no further iteration
TurbLoopEnds(t, produced) == t.attempt + 1 >= t.attempts

\* the rest of an iteration (lines 89-99) and, after the last one, the
\* return of lines 101-105
TurbRecord(kind, injected_latency, produced) ==
    LET t == turb
        last == TurbRemember(t, produced)
        after ==
            [t EXCEPT
                !.info_latency_ms = IF injected_latency # {}
                                    THEN injected_latency ELSE @,
                !.info_attempts = Append(@,
                    [ok |-> produced.observation.ok,
                     status_code |-> produced.observation.status_code,
                     injected_latency_ms |-> injected_latency,
                     errors |-> produced.observation.errors]),
                !.last_observation = last.observation,
                !.last_context = last.context,
                !.invoked = Append(@, [kind |-> kind, produced |-> produced]),
                !.attempt = @ + 1]
    IN  IF TurbLoopEnds(t, produced)
        THEN turb' = [after EXCEPT
                         !.pc = "returned",
                         !.result =
                             {[observation |->
                                   CHOOSE o \in last.observation : TRUE,
                               context |->
                                   CHOOSE c \in last.context : TRUE,
                               turbulence |->
                                   [retry_count |-> RetryCountOf(t.policy),
                                    latency_ms |-> after.info_latency_ms,
                                    attempts |-> after.info_attempts]]}]
        ELSE turb' = after

\* an attempt whose execute() returns (in time, when a timeout is injected)
TurbAttemptReturns ==
    /\ turb.pc = "attempt"
    /\ \E injected_latency \in PickLatency(turb.policy) :
       \E produced \in ExecuteReturns(turb.context) :
           TurbRecord("returned", injected_latency, produced)
    /\ UNCHANGED turbOthers

\* an attempt cut off by asyncio.wait_for after timeout_after_ms
TurbAttemptTimesOut ==
    /\ turb.pc = "attempt"
    /\ turb.policy.timeout_after_ms # {}
    /\ \E injected_latency \in PickLatency(turb.policy) :
           TurbRecord("timeout", injected_latency,
                      InjectedTimeout(turb.policy, turb.context))
    /\ UNCHANGED turbOthers

\* an attempt whose execute() raises: the exception leaves apply()
TurbAttemptRaises ==
    /\ turb.pc = "attempt"
    /\ \E injected_latency \in PickLatency(turb.policy) :
           turb' = [turb EXCEPT
                       !.pc = "raised",
                       !.info_latency_ms = IF injected_latency # {}
                                           THEN injected_latency ELSE @,
                       !.invoked = Append(@,
                           [kind |-> "raised",
                            produced |-> [observation |->
                                              Observation(FALSE, {}, <<>>),
                                          context |-> turb.context]])]
    /\ UNCHANGED turbOthers

TurbNext ==
    \/ TurbAttemptReturns
    \/ TurbAttemptTimesOut
    \/ TurbAttemptRaises

TurbSpec == TurbInit /\ [][TurbNext]_vars

\* ------------------------------------------------------- turbulence claims

TurbReturned == turb.pc = "returned"

TheResult == CHOOSE r \in turb.result : TRUE

LastInvoked == turb.invoked[Len(turb.invoked)]

\* C15: apply invokes the wrapped action exactly 1 + retry_count times and
\* records exactly that many attempt entries, in attempt order, whether the
\* attempts succeed, fail or hit the injected timeout; a successful attempt
\* does not end the loop early.
C15_TurbulenceAttempts ==
    turb.pc \in {"attempt", "returned"} =>
        /\ Len(turb.info_attempts) = Len(turb.invoked)
        /\ Len(turb.invoked) <= 1 + RetryCountOf(turb.policy)
        /\ \A k \in 1 .. Len(turb.invoked) :
              /\ turb.info_attempts[k].ok
                     = turb.invoked[k].produced.observation.ok
              /\ turb.info_attempts[k].errors
                     = turb.invoked[k].produced.observation.errors
        /\ TurbReturned =>
              /\ Len(turb.invoked) = 1 + RetryCountOf(turb.policy)
              /\ TheResult.turbulence.attempts = turb.info_attempts
        /\ turb.pc = "attempt" =>
              Len(turb.invoked) < 1 + RetryCountOf(turb.policy)

\* C15 witness: retry_count 2, the first attempt succeeds, the second hits
\* the injected timeout, three attempts recorded
C15_Witness ==
    /\ TurbReturned
    /\ turb.policy.retry_count = {2}
    /\ Len(turb.invoked) = 3
    /\ turb.invoked[1].produced.observation.ok
    /\ turb.invoked[2].kind = "timeout"
    /\ Len(TheResult.turbulence.attempts) = 3

\* C16: apply returns the observation and the context produced by the last
\* attempt regardless of success; when the last attempt failed or timed out
\* the returned observation is the failed one and values extracted by an
\* earlier attempt are absent from the returned context.
C16_LastAttemptReturned ==
    TurbReturned =>
        /\ TheResult.observation = LastInvoked.produced.observation
        /\ TheResult.context = LastInvoked.produced.context
        /\ LastInvoked.kind = "timeout" =>
              /\ ~TheResult.observation.ok
              /\ TheResult.observation.status_code = {}
        /\ ~LastInvoked.produced.observation.ok =>
              /\ ~TheResult.observation.ok
              /\ TheResult.context = turb.context

\* C16 witness: an earlier attempt succeeded and extracted order_id, the
\* last one timed out, and the returned context is the given one
C16_Witness ==
    /\ TurbReturned
    /\ Len(turb.invoked) >= 2
    /\ turb.invoked[1].produced.observation.ok
    /\ turb.invoked[1].produced.context # turb.context
    /\ LastInvoked.kind = "timeout"
    /\ ~TheResult.observation.ok
    /\ TheResult.context = turb.context

\* =========================================================================
\* actions/wait.py : WaitActionRunner.execute(context)
\* =========================================================================
\* Time is counted in ticks of one clock (time.perf_counter); it passes
\* while a poll request is in flight and while asyncio.sleep runs.

\* action.expect: an optional status_code and an optional
\* `jsonpath: $.status` with `equals`
WaitExpectations == [status_code : {{}, {200}}, equals : {{}, {"ok"}}]

\* what one poll request may produce
PollResponses ==
    {[kind |-> "response", status_code |-> {200}, body |-> {"ok"}],
     [kind |-> "response", status_code |-> {200}, body |-> {"pending"}],
     [kind |-> "response", status_code |-> {503}, body |-> {"pending"}]}
PollErrors ==
    {[kind |-> k, status_code |-> {}, body |-> {}] :
        k \in {"TimeoutException", "RequestError"}}

\* the message of lines 178-183
PollErrorMessage(k) ==
    IF k = "TimeoutException" THEN "Request timeout" ELSE "Request error"

\* _check_condition(body, status_code, expect)
CheckCondition(body, status, expect) ==
    /\ expect.status_code # {} => status = expect.status_code
    /\ expect.equals # {} => body = expect.equals

TimeoutReached_Late(elapsed_seconds, timeout_seconds) ==
    elapsed_seconds > timeout_seconds

\* line 146: elapsed_seconds >= self.action.timeout_seconds
TimeoutReached(elapsed_seconds, timeout_seconds) ==
    elapsed_seconds >= timeout_seconds

\* f"Timeout after {elapsed_seconds:.1f}s ({n} attempts)"
TimeoutError(elapsed_seconds, n) ==
    "Timeout after " \o ToString(elapsed_seconds) \o "s ("
        \o ToString(n) \o " attempts)"

WaitCall(timeout_seconds, interval_seconds, expect) ==
    [pc |-> "top", timeout_seconds |-> timeout_seconds,
     interval_seconds |-> interval_seconds, expect |-> expect,
     now |-> 0, start_time |-> 0, poll_start |-> 0,
     attempt_number |-> 0, elapsed_seconds |-> 0, sleep_time |-> 0,
     attempts |-> <<>>, condition_met |-> FALSE,
     last_body |-> {}, last_status_code |-> {},
     errors |-> <<>>, timed_out |-> FALSE, observation |-> {},
     \* history: what every poll produced and whether it was evaluated
     polls |-> <<>>]

WaitInit ==
    /\ wait \in {WaitCall(t, i, e) : t \in 1 .. MaxTimeout,
                                     i \in 1 .. MaxTimeout,
                                     e \in WaitExpectations}
    /\ ComponentsIdle
    /\ HttpIdle
    /\ TurbIdle

\* lines 226-243: the WaitObservation
WaitReturn(w) ==
    [w EXCEPT
        !.pc = "done",
        !.observation = {[ok |-> w.condition_met,
                          status_code |-> w.last_status_code,
                          latency |-> w.now - w.start_time,
                          body |-> w.last_body, errors |-> w.errors,
                          attempts |-> w.attempts,
                          total_attempts |-> Len(w.attempts),
                          timed_out |-> w.timed_out]}]

\* lines 140-155: the top of the loop up to the poll request
WaitLoopTop ==
    /\ wait.pc = "top"
    /\ LET elapsed_seconds == wait.now - wait.start_time
           w == [wait EXCEPT !.attempt_number = @ + 1,
                             !.elapsed_seconds = elapsed_seconds]
       IN  IF TimeoutReached(elapsed_seconds, wait.timeout_seconds)
           THEN wait' = WaitReturn(
                    [w EXCEPT !.timed_out = TRUE,
                              !.errors = Append(@,
                                  TimeoutError(elapsed_seconds,
                                               w.attempt_number - 1))])
           ELSE wait' = [w EXCEPT !.pc = "request", !.poll_start = wait.now]
    /\ UNCHANGED waitOthers

WaitEvaluates_Always(poll_error) == TRUE

\* line 190: `if poll_error is None`
WaitEvaluates(poll_error) == poll_error = None

SleepTime_OneTick(interval_seconds, remaining_seconds) == 1

\* line 214: min(self.action.interval_seconds, remaining_seconds)
SleepTime(interval_seconds, remaining_seconds) ==
    Min(interval_seconds, remaining_seconds)

\* lines 160-224: the poll request ended with `outcome` after `latency`
WaitAfterPoll(outcome, latency) ==
    LET got == outcome.kind = "response"
        now == wait.now + latency
        poll_error == IF got THEN None ELSE PollErrorMessage(outcome.kind)
        evaluates == WaitEvaluates(poll_error)
        condition_met ==
            IF evaluates
            THEN CheckCondition(outcome.body, outcome.status_code, wait.expect)
            ELSE wait.condition_met
        w == [wait EXCEPT
                !.now = now,
                !.last_status_code = IF got THEN outcome.status_code ELSE @,
                !.last_body = IF got THEN outcome.body ELSE @,
                !.condition_met = condition_met,
                !.attempts = Append(@,
                    [attempt_number |-> wait.attempt_number,
                     timestamp |-> wait.poll_start - wait.start_time,
                     latency |-> now - wait.poll_start,
                     status_code |-> outcome.status_code,
                     body |-> outcome.body,
                     condition_met |-> condition_met,
                     error |-> poll_error]),
                !.polls = Append(@, [kind |-> outcome.kind,
                                     issued_at |-> wait.now - wait.start_time,
                                     evaluated |-> evaluates])]
        remaining_seconds == wait.timeout_seconds - wait.elapsed_seconds
        sleep_time == SleepTime(wait.interval_seconds, remaining_seconds)
    IN  IF condition_met THEN wait' = WaitReturn(w)
        ELSE IF sleep_time <= 0
        THEN wait' = WaitReturn(
                 [w EXCEPT !.timed_out = TRUE,
                           !.errors = Append(@,
                               TimeoutError(wait.elapsed_seconds,
                                            wait.attempt_number))])
        ELSE wait' = [w EXCEPT !.pc = "sleep", !.sleep_time = sleep_time]

\* the poll request is answered
WaitPollReturns ==
    /\ wait.pc = "request"
    /\ \E outcome \in PollResponses : \E latency \in 0 .. MaxLatency :
           WaitAfterPoll(outcome, latency)
    /\ UNCHANGED waitOthers

\* the poll request raises
WaitPollFails ==
    /\ wait.pc = "request"
    /\ \E outcome \in PollErrors : \E latency \in 0 .. MaxLatency :
           WaitAfterPoll(outcome, latency)
    /\ UNCHANGED waitOthers

\* asyncio.sleep(sleep_time) returns
WaitSleepEnds ==
    /\ wait.pc = "sleep"
    /\ wait' = [wait EXCEPT !.pc = "top", !.now = @ + wait.sleep_time]
    /\ UNCHANGED waitOthers

WaitNext ==
    \/ WaitLoopTop
    \/ WaitPollReturns
    \/ WaitPollFails
    \/ WaitSleepEnds

WaitSpec == WaitInit /\ [][WaitNext]_vars

\* -------------------------------------------------------------- wait claims

WaitDone == wait.pc = "done"

TheWaitObservation == CHOOSE o \in wait.observation : TRUE

IsTimeoutError(e) == SubSeq(e, 1, 13) = "Timeout after"

\* C18: a wait action ends in exactly one of two outcomes: condition met
\* (ok, not timed_out, the last recorded attempt has condition_met) or timed
\* out (not ok, timed_out, a Timeout error recorded, no recorded attempt has
\* condition_met); total_attempts is the number of recorded attempts, which
\* are numbered 1..n; no poll is issued once the elapsed time has reached
\* the timeout.
C18_WaitOutcomes ==
    wait.pc # "idle" =>
        /\ \A k \in 1 .. Len(wait.polls) :
              wait.polls[k].issued_at < wait.timeout_seconds
        /\ Len(wait.attempts) = Len(wait.polls)
        /\ \A k \in 1 .. Len(wait.attempts) :
              wait.attempts[k].attempt_number = k
        /\ WaitDone =>
              LET o == TheWaitObservation
                  n == Len(o.attempts)
                  met == /\ o.ok
                         /\ ~o.timed_out
                         /\ n > 0
                         /\ o.attempts[n].condition_met
                  timed == /\ ~o.ok
                           /\ o.timed_out
                           /\ \E j \in 1 .. Len(o.errors) :
                                 IsTimeoutError(o.errors[j])
                           /\ \A k \in 1 .. n : ~o.attempts[k].condition_met
              IN  /\ o.attempts = wait.attempts
                  /\ o.total_attempts = n
                  /\ met \/ timed
                  /\ ~(met /\ timed)

\* C18 witness: a wait that timed out after two polls, the second issued
\* one tick before the timeout
C18_Witness ==
    /\ WaitDone
    /\ TheWaitObservation.timed_out
    /\ TheWaitObservation.total_attempts = 2
    /\ wait.polls[2].issued_at = wait.timeout_seconds - 1

\* C19: when a poll request fails with an error the expectation is not
\* evaluated for that poll, the attempt is recorded with the error and
\* condition_met=false, and polling goes on with the next attempt until the
\* condition is met or the timeout is reached.
C19_PollErrorContinues ==
    wait.pc # "idle" =>
        /\ \A k \in 1 .. Len(wait.polls) :
              wait.polls[k].kind # "response" =>
                  /\ ~wait.polls[k].evaluated
                  /\ wait.attempts[k].error
                         = PollErrorMessage(wait.polls[k].kind)
                  /\ ~wait.attempts[k].condition_met
                  /\ (k = Len(wait.polls) /\ WaitDone) =>
                        /\ TheWaitObservation.timed_out
                        /\ wait.elapsed_seconds >= wait.timeout_seconds
        /\ \A k \in 1 .. Len(wait.polls) :
              wait.polls[k].kind = "response" =>
                  wait.polls[k].evaluated /\ wait.attempts[k].error = None

\* C19 witness: two polls failed, the third met the condition
C19_Witness ==
    /\ WaitDone
    /\ Len(wait.polls) = 3
    /\ wait.polls[1].kind # "response"
    /\ wait.polls[2].kind # "response"
    /\ TheWaitObservation.ok
    /\ TheWaitObservation.attempts[3].condition_met

\* C20: the body and status_code of the returned WaitObservation are those
\* of the last poll attempt recorded in its attempt log.
C20_LastPollBodyAndStatus ==
    (WaitDone /\ Len(wait.attempts) > 0) =>
        LET o == TheWaitObservation
            last == o.attempts[Len(o.attempts)]
        IN  o.body = last.body /\ o.status_code = last.status_code

\* the part of C20 that holds: body and status_code are those of the last
\* recorded attempt that received a response, None when no attempt did
C20_LastResponseBodyAndStatus ==
    WaitDone =>
        LET o == TheWaitObservation
            answered == {k \in 1 .. Len(o.attempts) :
                            wait.polls[k].kind = "response"}
        IN  IF answered = {}
            THEN o.body = {} /\ o.status_code = {}
            ELSE LET k == CHOOSE x \in answered :
                              \A y \in answered : y <= x
                 IN  /\ o.body = o.attempts[k].body
                     /\ o.status_code = o.attempts[k].status_code

\* ======================================================================
\* storage/artifact.py::ArtifactStore over storage/jsonl.py::JSONLWriter
\* ======================================================================
\* One ArtifactStore is called by the instance tasks of one process.  Every
\* method of the store is synchronous, so a call made by an asyncio task is
\* one step.  The files are also read by other processes (the report, the
\* API), which see every state the file system goes through: finalize() is
\* therefore two steps, the open("w") of summary.json and the write of its
\* content.

\* the calls made on the store
MaxCalls == 4

\* the tasks that call the store
MaxWriters == 2

\* the executor, the run, with_retry and the action runners are not running
RunnersIdle ==
    /\ workflow = "none"
    /\ total_instances = 0
    /\ parallelism = ClampParallelism(1)
    /\ ExecInit
    /\ RunIdle
    /\ RetryIdle
    /\ EvaluationIdle
    /\ SignalsIdle
    /\ HttpIdle
    /\ TurbIdle
    /\ WaitIdle

\* ArtifactStore.__init__: writers None, counters zero, not initialized.
\* A writer is TRUE when it is a JSONLWriter with an open file and FALSE when
\* it is None.  A JSONL file is the sequence of the pieces of text written
\* to it, each tagged with the call and the task that wrote it.
StoreConstructed ==
    [pc |-> "ready",
     is_initialized |-> FALSE,
     instances_writer |-> FALSE, steps_writer |-> FALSE,
     assertions_writer |-> FALSE,
     total_instances |-> 0, pass_count |-> 0, fail_count |-> 0,
     error_count |-> 0, total_steps |-> 0, total_assertions |-> 0,
     assertions_passed |-> 0, assertions_failed |-> 0,
     instances_jsonl |-> <<>>, steps_jsonl |-> <<>>,
     assertions_jsonl |-> <<>>,
     \* summary.json: whether the file exists and, when its content has been
     \* written, the RunSummary it holds
     summary_json |-> [exists |-> FALSE, content |-> {}],
     summary |-> {},
     \* history: the calls made, the write calls that returned without an
     \* error per file, the calls that raised RuntimeError, and what
     \* _load_summary returned in another process
     calls |-> 0,
     returned |-> [instances |-> 0, steps |-> 0, assertions |-> 0],
     raised |-> 0,
     loaded |-> {}]

StoreInit ==
    /\ store = StoreConstructed
    /\ RunnersIdle
    /\ ReaderIdle
    /\ ReplayIdle
    /\ SeededIdle

\* the text a write call puts into a file
Chunk(call, task, text) == [call |-> call, task |-> task, text |-> text]

JsonlWrite_Interleaved(file, call, task) ==
    IF file = <<>>
    THEN <<Chunk(call, task, "json"), Chunk(call, task, "\n")>>
    ELSE SubSeq(file, 1, Len(file) - 1)
            \o <<Chunk(call, task, "json"), file[Len(file)],
                 Chunk(call, task, "\n")>>

\* JSONLWriter.write: self._file.write(line + "\n"); self._file.flush()
JsonlWrite(file, call, task) ==
    file \o <<Chunk(call, task, "json"), Chunk(call, task, "\n")>>

\* the number of lines of a file
Lines(file) == Cardinality({k \in 1 .. Len(file) : file[k].text = "\n"})

\* _ensure_initialized raises RuntimeError: the call ends without a change
StoreRaises(s) == [s EXCEPT !.calls = @ + 1, !.raised = @ + 1]

\* initialize(): a no-op on an initialized store, else opens the writers
StoreInitialize ==
    /\ store.pc = "ready"
    /\ store.calls < MaxCalls
    /\ store' = IF store.is_initialized
                THEN [store EXCEPT !.calls = @ + 1]
                ELSE [store EXCEPT !.calls = @ + 1,
                                   !.instances_writer = TRUE,
                                   !.steps_writer = TRUE,
                                   !.assertions_writer = TRUE,
                                   !.is_initialized = TRUE]
    /\ UNCHANGED storeOthers

\* write_instance(passed=..., error=...) called by a task
StoreWriteInstance(task, passed, error) ==
    /\ store.pc = "ready"
    /\ store.calls < MaxCalls
    /\ store' =
        IF ~store.is_initialized THEN StoreRaises(store)
        ELSE [store EXCEPT
                !.calls = @ + 1,
                !.instances_jsonl =
                    IF store.instances_writer
                    THEN JsonlWrite(@, store.calls + 1, task) ELSE @,
                !.total_instances = @ + 1,
                !.pass_count = IF passed = "True" THEN @ + 1 ELSE @,
                !.fail_count = IF passed = "False" THEN @ + 1 ELSE @,
                !.error_count = IF error # None THEN @ + 1 ELSE @,
                !.returned.instances = @ + 1]
    /\ UNCHANGED storeOthers

\* write_step(...) called by a task
StoreWriteStep(task) ==
    /\ store.pc = "ready"
    /\ store.calls < MaxCalls
    /\ store' =
        IF ~store.is_initialized THEN StoreRaises(store)
        ELSE [store EXCEPT
                !.calls = @ + 1,
                !.steps_jsonl =
                    IF store.steps_writer
                    THEN JsonlWrite(@, store.calls + 1, task) ELSE @,
                !.total_steps = @ + 1,
                !.returned.steps = @ + 1]
    /\ UNCHANGED storeOthers

\* write_assertion(passed=...) called by a task
StoreWriteAssertion(task, passed) ==
    /\ store.pc = "ready"
    /\ store.calls < MaxCalls
    /\ store' =
        IF ~store.is_initialized THEN StoreRaises(store)
        ELSE [store EXCEPT
                !.calls = @ + 1,
                !.assertions_jsonl =
                    IF store.assertions_writer
                    THEN JsonlWrite(@, store.calls + 1, task) ELSE @,
                !.total_assertions = @ + 1,
                !.assertions_passed = IF passed THEN @ + 1 ELSE @,
                !.assertions_failed = IF passed THEN @ ELSE @ + 1,
                !.returned.assertions = @ + 1]
    /\ UNCHANGED storeOthers

\* the RunSummary finalize() builds from the counters
RunSummary(s) ==
    [total_instances |-> s.total_instances, pass_count |-> s.pass_count,
     fail_count |-> s.fail_count, error_count |-> s.error_count,
     total_steps |-> s.total_steps,
     total_assertions |-> s.total_assertions,
     assertions_passed |-> s.assertions_passed,
     assertions_failed |-> s.assertions_failed]

\* finalize() up to self._summary_path.open("w"): the writers are closed and
\* set to None, the summary is built, summary.json exists and is empty
StoreFinalizeOpens ==
    /\ store.pc = "ready"
    /\ store.calls < MaxCalls
    /\ store' =
        IF ~store.is_initialized THEN StoreRaises(store)
        ELSE [store EXCEPT
                !.pc = "summary_open",
                !.calls = @ + 1,
                !.instances_writer = FALSE,
                !.steps_writer = FALSE,
                !.assertions_writer = FALSE,
                !.summary = {RunSummary(store)},
                !.summary_json = [exists |-> TRUE, content |-> {}]]
    /\ UNCHANGED storeOthers

\* finalize() from f.write(summary.model_dump_json(indent=2)) to its return
StoreFinalizeWrites ==
    /\ store.pc = "summary_open"
    /\ store' = [store EXCEPT
                    !.pc = "ready",
                    !.summary_json = [exists |-> TRUE, content |-> store.summary]]
    /\ UNCHANGED storeOthers

\* report/html.py::_load_summary in another process: {} when summary.json
\* does not exist, else json.load(f) of what the file holds
LoadSummary ==
    /\ store.pc # "idle"
    /\ store' = [store EXCEPT !.loaded = @ \cup {store.summary_json}]
    /\ UNCHANGED storeOthers

Writers == 1 .. MaxWriters

StoreNext ==
    \/ StoreInitialize
    \/ \E task \in Writers :
        \E args \in {<<"True", None>>, <<"False", None>>,
                     <<"False", "error">>} :
            StoreWriteInstance(task, args[1], args[2])
    \/ \E task \in Writers : StoreWriteStep(task)
    \/ \E task \in Writers, passed \in BOOLEAN :
        StoreWriteAssertion(task, passed)
    \/ StoreFinalizeOpens
    \/ StoreFinalizeWrites
    \/ LoadSummary

StoreSpec == StoreInit /\ [][StoreNext]_vars

\* ------------------------------------------------------ claims on the store

\* the store has been constructed and is being called
StoreLive == store.pc # "idle"

\* the totals of a summary are the numbers of lines of the three files
SummaryMatchesFiles(s) ==
    /\ s.total_instances = Lines(store.instances_jsonl)
    /\ s.total_steps = Lines(store.steps_jsonl)
    /\ s.total_assertions = Lines(store.assertions_jsonl)
    /\ s.assertions_passed + s.assertions_failed = s.total_assertions

\* every write call that returned has appended one line to its file
ReturnedWritesAppended ==
    /\ Lines(store.instances_jsonl) = store.returned.instances
    /\ Lines(store.steps_jsonl) = store.returned.steps
    /\ Lines(store.assertions_jsonl) = store.returned.assertions

\* C21: after any sequence of initialize, write_instance, write_step,
\* write_assertion and finalize calls, every write call that returned without
\* error has appended exactly one line to its file, and the totals of the
\* summary written by finalize equal the numbers of lines of instances.jsonl,
\* steps.jsonl and assertions.jsonl, with assertions_passed +
\* assertions_failed = total_assertions.
C21_WritesCounted ==
    StoreLive =>
        /\ ReturnedWritesAppended
        /\ \A s \in store.summary_json.content : SummaryMatchesFiles(s)

\* C21, what the code keeps: the same, for as long as finalize has not been
\* called (the writers of an initialized store are still open).
C21_WritesCountedUntilFinalize ==
    (StoreLive /\ store.summary = {}) =>
        /\ ReturnedWritesAppended
        /\ SummaryMatchesFiles(RunSummary(store))

\* the records of a file: every two pieces of text, a JSON text and the
\* newline that ends it, written by one call
WholeRecords(file) ==
    /\ Len(file) % 2 = 0
    /\ \A k \in 1 .. Len(file) :
        IF k % 2 = 1
        THEN file[k].text = "json"
        ELSE file[k].text = "\n" /\ file[k].call = file[k - 1].call
    /\ \A j, k \in 1 .. Len(file) :
        (j % 2 = 1 /\ k % 2 = 1 /\ j # k) => file[j].call # file[k].call

\* C22: records appended by concurrently running instance tasks never
\* interleave within a line: each of instances.jsonl, steps.jsonl and
\* assertions.jsonl is at every moment a sequence of whole records, each
\* produced by exactly one write call.
C22_WholeRecords ==
    StoreLive =>
        /\ WholeRecords(store.instances_jsonl)
        /\ WholeRecords(store.steps_jsonl)
        /\ WholeRecords(store.assertions_jsonl)

\* C22: two tasks have written to the same file one after the other
C22_Witness ==
    /\ StoreLive
    /\ \E file \in {store.instances_jsonl, store.steps_jsonl,
                    store.assertions_jsonl} :
        /\ Len(file) >= 4
        /\ file[1].task # file[3].task

\* C24: finalize() writes summary.json atomically: a concurrent reader that
\* finds summary.json present never reads an empty or partially written
\* summary.
C24_SummaryNeverReadEmpty ==
    StoreLive =>
        \A read \in store.loaded : read.exists => read.content # {}

\* C24, what the code keeps: a summary read after finalize() returned is the
\* summary finalize() built.
C24_SummaryWholeAfterFinalize ==
    (StoreLive /\ store.pc = "ready" /\ store.summary_json.exists) =>
        store.summary_json.content = store.summary

\* ======================================================================
\* the readers of a JSONL artifact file
\* ======================================================================
\* storage/jsonl.py::read_jsonl, engine/replay.py::load_instance,
\* api/services/artifact_reader.py::list_instances and
\* api/routes/stream.py::tail_jsonl read a file line by line and parse every
\* line that is not blank with json.loads.

\* the lines of a file
MaxLines == 3

\* what a line of a file on disk can be: the JSON text of a record, text
\* that is not JSON, nothing but white space, or (last line only) the
\* beginning of a record whose write was cut short
LineKinds == {"record", "malformed", "blank", "partial"}

\* the files: line k, when it is a record, is the record of instance k
JsonlFiles ==
    UNION {
        {[k \in 1 .. n |-> [kind |-> kinds[k], instance_id |-> k]] :
            kinds \in {f \in [1 .. n -> LineKinds] :
                        \A k \in 1 .. n : f[k] = "partial" => k = n}}
        : n \in 0 .. MaxLines}

\* json.loads(line): the record, or nothing when JSONDecodeError is raised
JsonLoads(line) == IF line.kind = "record" THEN {line.instance_id} ELSE {}

\* line.strip() is empty
IsBlank(line) == line.kind = "blank"

\* what a reader call produced: the exception raised, if any, and the
\* records returned
ReadResult(raised, records) == [raised |-> raised, records |-> records]

RECURSIVE ReadJsonl(_, _, _)
\* read_jsonl: json.loads in no try block, so its exception ends the call
ReadJsonl(file, k, records) ==
    IF k > Len(file) THEN ReadResult(None, records)
    ELSE IF IsBlank(file[k]) THEN ReadJsonl(file, k + 1, records)
    ELSE IF JsonLoads(file[k]) = {}
         THEN ReadResult("JSONDecodeError", <<>>)
         ELSE ReadJsonl(file, k + 1, Append(records, file[k].instance_id))

RECURSIVE SkippingRead(_, _, _)
\* the loop of list_instances and of tail_jsonl: except JSONDecodeError:
\* continue
SkippingRead(file, k, records) ==
    IF k > Len(file) THEN ReadResult(None, records)
    ELSE IF IsBlank(file[k]) THEN SkippingRead(file, k + 1, records)
    ELSE IF JsonLoads(file[k]) = {} THEN SkippingRead(file, k + 1, records)
         ELSE SkippingRead(file, k + 1, Append(records, file[k].instance_id))

RECURSIVE LoadInstance(_, _, _)
\* load_instance: the first record whose instance_id is the one asked for;
\* blank and malformed lines are skipped; InstanceNotFoundError at the end
LoadInstance(file, k, wanted) ==
    IF k > Len(file) THEN ReadResult("InstanceNotFoundError", <<>>)
    ELSE IF IsBlank(file[k]) THEN LoadInstance(file, k + 1, wanted)
    ELSE IF JsonLoads(file[k]) = {} THEN LoadInstance(file, k + 1, wanted)
    ELSE IF file[k].instance_id = wanted
         THEN ReadResult(None, <<file[k].instance_id>>)
         ELSE LoadInstance(file, k + 1, wanted)

\* a file on disk and no reader called yet
ReaderInit ==
    /\ reader \in {[pc |-> "reading", file |-> f, got |-> {}] :
                    f \in JsonlFiles}
    /\ RunnersIdle
    /\ StoreIdle
    /\ ReplayIdle
    /\ SeededIdle

\* a call of a reader has returned or raised: remember what it produced
ReaderGot(name, asked, result) ==
    [reader EXCEPT !.got = @ \cup {[reader |-> name, asked |-> asked,
                                    result |-> result]}]

\* read_jsonl(path)
CallReadJsonl ==
    /\ reader.pc = "reading"
    /\ reader' = ReaderGot("read_jsonl", 0, ReadJsonl(reader.file, 1, <<>>))
    /\ UNCHANGED readerOthers

\* ReplayEngine.load_instance(run_id, instance_id)
CallLoadInstance(wanted) ==
    /\ reader.pc = "reading"
    /\ reader' = ReaderGot("load_instance", wanted,
                           LoadInstance(reader.file, 1, wanted))
    /\ UNCHANGED readerOthers

\* ArtifactReaderService.list_instances(run_id)
CallListInstances ==
    /\ reader.pc = "reading"
    /\ reader' = ReaderGot("list_instances", 0,
                           SkippingRead(reader.file, 1, <<>>))
    /\ UNCHANGED readerOthers

\* tail_jsonl(file_path, last_position=0)
CallTailJsonl ==
    /\ reader.pc = "reading"
    /\ reader' = ReaderGot("tail_jsonl", 0,
                           SkippingRead(reader.file, 1, <<>>))
    /\ UNCHANGED readerOthers

ReaderNext ==
    \/ CallReadJsonl
    \/ \E wanted \in 1 .. MaxLines : CallLoadInstance(wanted)
    \/ CallListInstances
    \/ CallTailJsonl

ReaderSpec == ReaderInit /\ [][ReaderNext]_vars

\* ---------------------------------------------------- claims on the readers

\* the well-formed records of a file, in the order of the file
WellFormed(file) ==
    LET Ids(line) == line.instance_id
        kept == SelectSeq(file, LAMBDA line : line.kind = "record")
    IN [k \in 1 .. Len(kept) |-> Ids(kept[k])]

\* the file holds a line that is not blank and does not parse
HasMalformedLine(file) ==
    \E k \in 1 .. Len(file) : file[k].kind \in {"malformed", "partial"}

\* a call did not fail and returned all well-formed records of the file
\* (load_instance: the record asked for, when it is among them)
ReadAll(g) ==
    IF g.reader = "load_instance"
    THEN (\E k \in 1 .. Len(reader.file) :
             reader.file[k] = [kind |-> "record", instance_id |-> g.asked])
         => g.result = ReadResult(None, <<g.asked>>)
    ELSE g.result = ReadResult(None, WellFormed(reader.file))

\* C23: every reader of a JSONL artifact file (read_jsonl, load_instance, the
\* artifact reader service, the stream tailer) skips a malformed or partial
\* line without failing and still returns all well-formed records of the
\* file.
C23_ReadersSkipMalformed ==
    reader.pc = "reading" => \A g \in reader.got : ReadAll(g)

\* C23, what the code keeps: load_instance, list_instances and tail_jsonl
\* skip such a line and return all well-formed records.
C23_SkippingReadersSkipMalformed ==
    reader.pc = "reading" =>
        \A g \in reader.got : g.reader # "read_jsonl" => ReadAll(g)

\* ======================================================================
\* engine/replay.py::ReplayEngine
\* ======================================================================
\* One ReplayEngine with one SUT config serves the replay() coroutines of one
\* event loop.  A coroutine runs without interruption from one await of an
\* HTTP request to the next, so replay() is one step from its call to the
\* first request and one step from every response to the next request or to
\* its return.  The scenario is passed to replay(); its flow is a list of
\* HTTP steps.

\* the replay() calls on the engine; call c replays instance c
MaxReplays == 2

\* the steps of the replayed scenario's flow
MaxReplaySteps == 2

\* ArtifactStore(run_id=...) of the recorded run
RunId == "run_001"

\* scenario.id
ScenarioId == "test_scenario"

\* scenario.entry.model_dump() of the recorded run
EntryData == {<<"seed_data", "user_001">>}

\* json.loads of the line write_instance writes for instance i: the fields
\* of InstanceRecord
DumpInstanceRecord(i, entry_data) ==
    [instance_id |-> instance_id(i), run_id |-> RunId,
     correlation_id |-> correlation_id(i), scenario_id |-> ScenarioId,
     passed |-> "True", entry_data |-> entry_data, error |-> None]

\* a line as tests/test_replay.py writes it by hand
SampleInstanceData(i, entry, stored) ==
    [instance_id |-> instance_id(i), run_id |-> RunId,
     correlation_id |-> correlation_id(i), scenario_id |-> ScenarioId,
     seed |-> 42, entry |-> entry, results |-> stored]

\* InstanceData.from_dict: data["instance_id"], ..., data.get("seed", 0),
\* data.get("entry", {}), data.get("results", [])
FromDict(data) ==
    [instance_id |-> data.instance_id, run_id |-> data.run_id,
     correlation_id |-> data.correlation_id,
     scenario_id |-> data.scenario_id,
     seed |-> IF "seed" \in DOMAIN data THEN data.seed ELSE 0,
     entry |-> IF "entry" \in DOMAIN data THEN data.entry ELSE {},
     original_results |->
        IF "results" \in DOMAIN data THEN data.results ELSE <<>>]

\* load_instance: InstanceData.from_dict of the first line whose
\* instance_id is the one asked for (every line of the file is well-formed
\* and the instance is in the file)
ReplayLoadInstance(lines, wanted) ==
    LET hits == {k \in 1 .. Len(lines) : lines[k].instance_id = wanted}
    IN FromDict(lines[CHOOSE k \in hits : \A j \in hits : k <= j])

\* create_context_from_instance: WorkflowContext(run_id=..., instance_id=...,
\* correlation_id=...) and set_entry(instance_data.entry)
CreateContextFromInstance(instance_data) ==
    [run_id |-> instance_data.run_id,
     instance_id |-> instance_data.instance_id,
     correlation_id |-> instance_data.correlation_id,
     entry |-> instance_data.entry]

\* the status_code and ok of an observation, as the original run stored them
\* and as the replay observes them
StoredObservations == {[ok |-> TRUE, status_code |-> {200}],
                       [ok |-> FALSE, status_code |-> {404}]}
ReplayedObservations == {[ok |-> TRUE, status_code |-> {200}],
                         [ok |-> FALSE, status_code |-> {500}]}

\* the Observation replay() builds when execute_step raises
RaisedObservation == [ok |-> FALSE, status_code |-> {}]

\* _compare_observations, lines 291-301: the names of the differing fields
Differences(current, original) ==
    (IF original.status_code # current.status_code
     THEN {"status_code"} ELSE {})
    \cup (IF original.ok # current.ok THEN {"ok"} ELSE {})

\* _compare_observations(current, original): no original, no difference
CompareObservations(current, original) ==
    IF original = {}
    THEN [has_difference |-> FALSE, difference_details |-> {}]
    ELSE LET differences == Differences(current,
                                        CHOOSE o \in original : TRUE)
         IN [has_difference |-> differences # {},
             difference_details |-> differences]

\* locals of a replay() call that has not been made
ReplayNotCalled ==
    [pc |-> "idle", instance_data |-> {}, ctx |-> {}, step_num |-> 0,
     steps |-> <<>>, success |-> TRUE, result |-> {},
     \* history: the X-Correlation-ID of every request sent
     sent |-> <<>>]

\* the artifacts of a recorded run with one instance per replay() call, the
\* scenario, and an engine on which replay() has not been called
ReplayInit ==
    /\ replay \in
        {[pc |-> "ready",
          recorded_by |-> by,
          \* what the original run stored per step: steps.jsonl for a run,
          \* the "results" of the hand-written line for a test
          stored |-> stored,
          instances_jsonl |->
            [i \in 1 .. MaxReplays |->
                IF by = "run" THEN DumpInstanceRecord(i, EntryData)
                ELSE SampleInstanceData(i, EntryData,
                                        [k \in DOMAIN stored |-> {stored[k]}])],
          flow |-> Len(stored),
          any_action_fails |-> stop,
          \* self.sut_config.default_headers.get("X-Correlation-ID")
          default_headers |-> None,
          calls |-> [c \in 1 .. MaxReplays |-> ReplayNotCalled]] :
            by \in {"run", "test"}, stop \in BOOLEAN,
            stored \in UNION {[1 .. n -> StoredObservations] :
                                n \in 1 .. MaxReplaySteps}}
    /\ RunnersIdle
    /\ StoreIdle
    /\ ReaderIdle
    /\ SeededIdle

\* ReplayResult(instance_id=..., correlation_id=ctx.correlation_id, ...)
ReplayResult(L) ==
    [instance_id |-> L.instance_data.instance_id,
     correlation_id |-> L.ctx.correlation_id,
     scenario_id |-> ScenarioId,
     success |-> L.success, steps |-> L.steps]

\* the loop over scenario.flow goes on: the next step's request is built
\* from the engine's SUT config and sent, or the loop ends and replay()
\* returns
ReplayGoesOn(r, L, stop) ==
    IF stop \/ L.step_num >= r.flow
    THEN [L EXCEPT !.pc = "returned", !.result = {ReplayResult(L)}]
    ELSE [L EXCEPT !.pc = "awaiting",
                   !.step_num = @ + 1,
                   !.sent = Append(@, MergeHeaders(r.default_headers,
                                                   None, None))]

\* replay(run_id, instance_id, scenario) up to its first request: lines
\* 324-371
ReplayBegin(c) ==
    /\ replay.pc = "ready"
    /\ replay.calls[c].pc = "idle"
    /\ \A b \in 1 .. c - 1 : replay.calls[b].pc # "idle"
    /\ LET instance_data == ReplayLoadInstance(replay.instances_jsonl,
                                               instance_id(c))
           ctx == CreateContextFromInstance(instance_data)
           r == [replay EXCEPT !.default_headers = ctx.correlation_id]
           L == [replay.calls[c] EXCEPT !.instance_data = instance_data,
                                        !.ctx = ctx]
       IN replay' = [r EXCEPT !.calls[c] = ReplayGoesOn(r, L, FALSE)]
    /\ UNCHANGED replayOthers

\* the step has produced an observation: lines 385-400
ReplayRecord(r, c, observation, success) ==
    LET L == r.calls[c]
        original_obs ==
            IF L.step_num <= Len(L.instance_data.original_results)
            THEN L.instance_data.original_results[L.step_num]
            ELSE {}
        compared == CompareObservations(observation, original_obs)
        step_result ==
            [step_number |-> L.step_num, observation |-> observation,
             original_observation |-> original_obs,
             has_difference |-> compared.has_difference,
             difference_details |-> compared.difference_details]
        M == [L EXCEPT !.steps = Append(@, step_result),
                       !.success = success /\ observation.ok]
    IN [r EXCEPT !.calls[c] =
            ReplayGoesOn(r, M, ~observation.ok /\ r.any_action_fails)]

\* execute_step returns the observation of the response
ReplayStepReturns(c, observation) ==
    /\ replay.pc = "ready"
    /\ replay.calls[c].pc = "awaiting"
    /\ replay' = ReplayRecord(replay, c, observation,
                              replay.calls[c].success)
    /\ UNCHANGED replayOthers

\* execute_step raises: the except branch of lines 373-381
ReplayStepRaises(c) ==
    /\ replay.pc = "ready"
    /\ replay.calls[c].pc = "awaiting"
    /\ replay' = ReplayRecord(replay, c, RaisedObservation, FALSE)
    /\ UNCHANGED replayOthers

ReplayNext ==
    \/ \E c \in 1 .. MaxReplays : ReplayBegin(c)
    \/ \E c \in 1 .. MaxReplays, observation \in ReplayedObservations :
        ReplayStepReturns(c, observation)
    \/ \E c \in 1 .. MaxReplays : ReplayStepRaises(c)

ReplaySpec == ReplayInit /\ [][ReplayNext]_vars

\* ----------------------------------------------------- claims on the replay

\* the replay() calls that have been made
Replaying == IF replay.pc = "ready"
             THEN {c \in 1 .. MaxReplays : replay.calls[c].pc # "idle"}
             ELSE {}

\* C25: replaying an instance recorded by a run reconstructs the context
\* with the original run_id, instance_id, correlation_id and entry data that
\* the run wrote for that instance in instances.jsonl.
C25_ContextRoundTrip ==
    \A c \in Replaying :
        replay.recorded_by = "run" =>
            LET written == replay.instances_jsonl[c]
            IN replay.calls[c].ctx =
                [run_id |-> written.run_id,
                 instance_id |-> written.instance_id,
                 correlation_id |-> written.correlation_id,
                 entry |-> written.entry_data]

\* C25, what the code keeps: the three identifiers are those the run wrote.
C25_IdentifiersRoundTrip ==
    \A c \in Replaying :
        replay.recorded_by = "run" =>
            LET written == replay.instances_jsonl[c]
                ctx == replay.calls[c].ctx
            IN /\ ctx.run_id = written.run_id
               /\ ctx.instance_id = written.instance_id
               /\ ctx.correlation_id = written.correlation_id

\* C26: for each replayed step, has_difference is true exactly when the
\* observation stored for that step by the original run differs from the
\* replayed observation in status_code or in ok, and difference_details
\* names each differing field; a step with no stored original reports no
\* difference.
C26_DifferenceFromStored ==
    \A c \in Replaying :
        \A k \in 1 .. Len(replay.calls[c].steps) :
            LET step == replay.calls[c].steps[k]
                differing ==
                    IF k <= Len(replay.stored)
                    THEN Differences(step.observation, replay.stored[k])
                    ELSE {}
            IN /\ step.has_difference <=> differing # {}
               /\ step.difference_details = differing

\* C26, what the code keeps: the comparison is made against the "results" of
\* the instance's line in instances.jsonl, which a run never writes.
C26_DifferenceFromResults ==
    \A c \in Replaying :
        \A k \in 1 .. Len(replay.calls[c].steps) :
            LET step == replay.calls[c].steps[k]
                original_results ==
                    replay.calls[c].instance_data.original_results
                differing ==
                    IF k <= Len(original_results)
                    THEN Differences(step.observation,
                                     CHOOSE o \in original_results[k] : TRUE)
                    ELSE {}
            IN /\ step.original_observation =
                    (IF k <= Len(original_results)
                     THEN original_results[k] ELSE {})
               /\ step.has_difference <=> differing # {}
               /\ step.difference_details = differing

\* C27: every request sent while replaying an instance carries
\* X-Correlation-ID equal to that instance's original correlation_id, and
\* ReplayResult.correlation_id equals it, also when the same ReplayEngine
\* and SUT config serve other replays before or concurrently.
C27_ReplayCorrelation ==
    \A c \in Replaying :
        LET L == replay.calls[c]
        IN /\ \A k \in 1 .. Len(L.sent) : L.sent[k] = correlation_id(c)
           /\ \A result \in L.result :
                result.correlation_id = correlation_id(c)

\* C27, what the code keeps: the first request of a replay and its
\* ReplayResult carry the instance's original correlation_id.
C27_FirstRequestAndResult ==
    \A c \in Replaying :
        LET L == replay.calls[c]
        IN /\ Len(L.sent) >= 1 => L.sent[1] = correlation_id(c)
           /\ \A result \in L.result :
                result.correlation_id = correlation_id(c)

\* ======================================================================
\* commands/run.py::execute_instance: the scenario, the context and the
\* variation of an instance;  variation/engine.py::VariationEngine
\* ======================================================================
\* execute_instance is one step from its call to its first await (the
\* scenario is picked and the context is built) and one step per answered
\* HTTP step (the extracted values are bound in the context).
\* VariationEngine.apply is called on its own, as its callers in the
\* repository do.  To compare runs, two runs are made with the same seed,
\* scenario list and variation config; in each the instances start, and
\* apply is called, in any order.  The steps of the flow draw no random
\* number, so the compared runs stop at the start of every instance; the
\* steps are followed in a single run.

\* the seeds of a run: 1 .. MaxSeed
MaxSeed == 2

\* the instances of a run: indices 0 .. SeededInstances - 1
SeededInstances == 2

\* the two runs that are compared
SeededRuns == {1, 2}

\* random.Random(seed): the generator is a state; each draw returns the
\* state and moves to the next one
RngModulus == 8
RandomOf(seed) == seed % RngModulus
RngNext(s) == (s * 5 + 3) % RngModulus

\* rng.choice(values)
RngChoice(s, values) == values[(s % Len(values)) + 1]

\* rng.random() < probability, for the probability 0.5
RngToggle(s) == s * 2 < RngModulus

\* rng.randint(lo, hi)
RngRandint(s, lo, hi) == lo + (s % (hi - lo + 1))

\* the variation config of the scenario that declares one: a choice
\* parameter, a toggle and timing jitter
TheVariation ==
    [parameters |-> [user_id |-> <<"user1", "user2">>],
     toggles |-> <<"apply_coupon">>,
     timing |-> [jitter_ms |-> [min |-> 1, max |-> 2]]]

\* the response body field every extract map reads
ExtractPath == "$.id"

\* a scenario: its id, its variation (None is the empty set), its entry and
\* the extract map of its HTTP step (context key -> JSONPath)
SeededScenario(id, variation, extract) ==
    [id |-> id, variation |-> variation,
     entry |-> [seed_data |-> [user |-> "user_001"]],
     extract |-> extract]

\* the scenarios of the scenario lists
Checkout == SeededScenario("checkout", {TheVariation},
                           {<<"order_id", ExtractPath>>})
Tracking == SeededScenario("tracking", {},
                           {<<"correlation_id", ExtractPath>>,
                            <<"run_id", ExtractPath>>,
                            <<"instance_id", ExtractPath>>})
Browse == SeededScenario("browse", {TheVariation}, {})

ScenarioLists == {<<Checkout>>, <<Checkout, Tracking>>,
                  <<Tracking, Browse>>}

InstanceSeed_Shared(base_seed, instance_index, drawn) == base_seed + drawn

\* seed_value + instance_index: the seed of the generator made for one
\* instance.  drawn, the number of generators the run has made before, is
\* not used.
InstanceSeed(base_seed, instance_index, drawn) == base_seed + instance_index

\* _pick_scenario(scenarios, seed_value, instance_index)
PickScenario(scenarios, seed_value, instance_index, drawn) ==
    IF Len(scenarios) = 1 THEN scenarios[1]
    ELSE RngChoice(RandomOf(InstanceSeed(seed_value, instance_index, drawn)),
                   scenarios)

\* VariationEngine(config, base_seed).apply(instance_index)
VariationApply(cfg, base_seed, instance_index, drawn) ==
    LET s1 == RandomOf(InstanceSeed(base_seed, instance_index, drawn))
        s2 == RngNext(s1)
        s3 == RngNext(s2)
    IN [user_id |-> RngChoice(s1, cfg.parameters.user_id),
        apply_coupon |-> RngToggle(s2),
        _timing_jitter_ms |-> RngRandint(s3, cfg.timing.jitter_ms.min,
                                         cfg.timing.jitter_ms.max)]

\* the identifiers of instance i of run r
SeededRunId(r) == "run_" \o ToString(r)
SeededKey(r, i) == 10 * r + i

\* WorkflowContext.from_scenario_entry(entry_data, run_id=run_id)
FromScenarioEntry(r, i, entry_data) ==
    [run_id |-> SeededRunId(r), instance_id |-> instance_id(SeededKey(r, i)),
     correlation_id |-> correlation_id(SeededKey(r, i)),
     entry |-> entry_data]

\* WorkflowContext.to_dict(): the flat dict the flow works on
ToDict(ctx) ==
    [run_id |-> ctx.run_id, instance_id |-> ctx.instance_id,
     correlation_id |-> ctx.correlation_id, entry |-> ctx.entry]

\* context[key] = value on a dict
SetItem(d, key, value) ==
    [k \in DOMAIN d \cup {key} |-> IF k = key THEN value ELSE d[k]]

RECURSIVE ExtractInto(_, _, _)
\* _extract_values: context[key] = matches[0].value for every key of the
\* extract map whose JSONPath matches the body
ExtractInto(d, extract, body) ==
    IF extract = {} THEN d
    ELSE LET e == CHOOSE x \in extract : TRUE
         IN ExtractInto(IF e[2] \in DictKeys(body)
                        THEN SetItem(d, e[1],
                                     CHOOSE v \in DictGet(body, e[2]) : TRUE)
                        ELSE d,
                        extract \ {e}, body)

\* the bodies of the answers to the HTTP step: the field is there or not
SeededBodies == {{<<ExtractPath, "srv_7">>}, {<<ExtractPath, "srv_9">>}, {}}

\* locals of an execute_instance call that has not been made
SeededNotStarted ==
    [pc |-> "idle", scenario |-> {}, entry_data |-> {}, ctx |-> {},
     context_dict |-> {}, initial_context |-> {},
     \* history: what VariationEngine.apply(instance_index) returned
     applied |-> {}]

\* the runs of a seed and a scenario list, no instance started; first is
\* history, the instance each run started first
SeededRunsOf(run_ids) ==
    {[pc |-> "runs", seed_value |-> s, scenario_list |-> l,
      first |-> [r \in run_ids |-> {}],
      runs |-> [r \in run_ids |->
                  [i \in 0 .. SeededInstances - 1 |-> SeededNotStarted]]] :
        s \in 1 .. MaxSeed, l \in ScenarioLists}

\* the other components are not in use
SeededAlone ==
    /\ RunnersIdle
    /\ StoreIdle
    /\ ReaderIdle
    /\ ReplayIdle

\* two runs to compare
SeededInit == seeded \in SeededRunsOf(SeededRuns) /\ SeededAlone

\* one run to follow
ContextInit == seeded \in SeededRunsOf({1}) /\ SeededAlone

\* the calls of run r that have been made
Started(r) ==
    {i \in 0 .. SeededInstances - 1 : seeded.runs[r][i].pc # "idle"}
Applied(r) ==
    {i \in 0 .. SeededInstances - 1 : seeded.runs[r][i].applied # {}}

\* execute_instance(instance_index), lines 156-165: the scenario is picked,
\* the context is built from the scenario's entry and the identifiers
SeededStart(r, i) ==
    /\ seeded.pc = "runs"
    /\ seeded.runs[r][i].pc = "idle"
    /\ LET picked == PickScenario(seeded.scenario_list, seeded.seed_value,
                                  i, Cardinality(Started(r)))
           entry_data == picked.entry
           ctx == FromScenarioEntry(r, i, entry_data)
       IN seeded' = [seeded EXCEPT
                        !.first[r] = IF @ = {} THEN {i} ELSE @,
                        !.runs[r][i] =
                            [@ EXCEPT !.pc = "flow",
                                      !.scenario = {picked},
                                      !.entry_data = {entry_data},
                                      !.ctx = {ctx},
                                      !.context_dict = {ToDict(ctx)},
                                      !.initial_context = {ToDict(ctx)}]]
    /\ UNCHANGED seededOthers

\* the HTTP step of the flow is answered with a body: execute() returns the
\* updated context and the flow ends
SeededStepReturns(r, i, body) ==
    /\ seeded.pc = "runs"
    /\ seeded.runs[r][i].pc = "flow"
    /\ seeded' = [seeded EXCEPT !.runs[r][i] =
                    [@ EXCEPT
                        !.pc = "done",
                        !.context_dict =
                            {ExtractInto(d, s.extract, body) :
                                d \in @, s \in seeded.runs[r][i].scenario}]]
    /\ UNCHANGED seededOthers

\* VariationEngine(scenario.variation, seed_value).apply(i) for the
\* variation config of the scenario list
SeededApply(r, i) ==
    /\ seeded.pc = "runs"
    /\ seeded.runs[r][i].applied = {}
    /\ seeded' = [seeded EXCEPT !.runs[r][i].applied =
                    {VariationApply(TheVariation, seeded.seed_value, i,
                                    Cardinality(Applied(r)))}]
    /\ UNCHANGED seededOthers

SeededIndices == 0 .. SeededInstances - 1

SeededNext ==
    \/ \E r \in DOMAIN seeded.runs, i \in SeededIndices : SeededStart(r, i)
    \/ \E r \in DOMAIN seeded.runs, i \in SeededIndices : SeededApply(r, i)

SeededSpec == SeededInit /\ [][SeededNext]_vars

ContextNext ==
    \/ \E r \in DOMAIN seeded.runs, i \in SeededIndices : SeededStart(r, i)
    \/ \E r \in DOMAIN seeded.runs, i \in SeededIndices,
          body \in SeededBodies : SeededStepReturns(r, i, body)

ContextSpec == ContextInit /\ [][ContextNext]_vars

\* ------------------------------------- claims on the context and the seed

\* the runs that are made and the instances of a run that have started
RunsMade == IF seeded.pc = "runs" THEN DOMAIN seeded.runs ELSE {}
StartedIn(r) == {i \in SeededIndices : seeded.runs[r][i].pc # "idle"}

\* the keys of the context that hold the identifiers
IdentifierKeys == {"run_id", "instance_id", "correlation_id"}

\* C28: throughout an instance's execution the context's run_id,
\* instance_id and correlation_id keep the values assigned at creation,
\* whatever names the flow's extract maps bind and whatever the responses
\* contain.
C28_IdentifiersKept ==
    \A r \in RunsMade : \A i \in StartedIn(r) :
        \A d \in seeded.runs[r][i].context_dict,
           ctx \in seeded.runs[r][i].ctx :
            /\ d.run_id = ctx.run_id
            /\ d.instance_id = ctx.instance_id
            /\ d.correlation_id = ctx.correlation_id

\* C28, what the code keeps: the identifiers that no extract map of the
\* scenario names keep their values.
C28_IdentifiersKeptUnlessExtracted ==
    \A r \in RunsMade : \A i \in StartedIn(r) :
        \A d \in seeded.runs[r][i].context_dict,
           first_d \in seeded.runs[r][i].initial_context,
           s \in seeded.runs[r][i].scenario :
            \A k \in IdentifierKeys \ DictKeys(s.extract) : d[k] = first_d[k]

C30_VariationInjected ==
    \A r \in RunsMade : \A i \in StartedIn(r) :
        \A d \in seeded.runs[r][i].initial_context,
           s \in seeded.runs[r][i].scenario :
            \A cfg \in s.variation :
                /\ "variation" \in DOMAIN d.entry.seed_data
                /\ d.entry.seed_data.variation =
                        VariationApply(cfg, seeded.seed_value, i, 0)

\* C30, what the code does: the entry of the initial context is the
\* scenario's entry as declared, with or without a variation config.
C30_EntryAsDeclared ==
    \A r \in RunsMade : \A i \in StartedIn(r) :
        \A d \in seeded.runs[r][i].initial_context,
           s \in seeded.runs[r][i].scenario :
            d.entry = s.entry

\* ------------------------------------------- evaluation/sandbox.py

evaluationOthers == <<execVars, runVars, retryVars, http, turb, wait, store,
                      reader, replay, seeded, signals>>

\* the executor, the run, with_retry, the action runners and the storage are
\* not running
ProgramIdle ==
    /\ workflow = "none"
    /\ total_instances = 0
    /\ parallelism = ClampParallelism(1)
    /\ ExecInit
    /\ RunIdle
    /\ RetryIdle
    /\ StorageIdle
    /\ HttpIdle
    /\ TurbIdle
    /\ WaitIdle

\* only an evaluator is called
EvaluationAlone == ProgramIdle /\ SignalsIdle

ALLOWED_FUNCTIONS == {"sum", "len", "min", "max", "any", "all", "range"}

ALLOWED_ATTRIBUTES ==
    {"startswith", "endswith", "lower", "upper", "strip", "split", "get"}

\* _ExpressionValidator._allowed_nodes, by class name
AllowedNodes ==
    {"Expression", "BoolOp", "BinOp", "UnaryOp", "Compare", "Call", "Name",
     "Load", "Store", "Constant", "List", "Tuple", "Dict", "Set",
     "Subscript", "Attribute", "Slice", "IfExp", "ListComp", "GeneratorExp",
     "comprehension", "Add", "Sub", "Mult", "Div", "Mod", "Pow", "FloorDiv",
     "And", "Or", "Not", "Eq", "NotEq", "Lt", "LtE", "Gt", "GtE", "In",
     "NotIn", "Is", "IsNot", "USub", "UAdd", "Index"}

\* An ast node: its class, its identifier (Name.id, Attribute.attr) and its
\* children in the order the visitor reaches them.  A comprehension has one
\* generator without conditions: children <<elt, target, iter>>.
AstName(ident) == [kind |-> "Name", id |-> ident, kids |-> <<>>]
AstConstant == [kind |-> "Constant", id |-> "1", kids |-> <<>>]
AstAttribute(value, attr) == [kind |-> "Attribute", id |-> attr,
                              kids |-> <<value>>]
AstCall(func, arg) == [kind |-> "Call", id |-> "", kids |-> <<func, arg>>]
AstComp(cls, elt, target, iter) == [kind |-> cls, id |-> "",
                                    kids |-> <<elt, target, iter>>]
AstBinOp(left, right) == [kind |-> "BinOp", id |-> "",
                          kids |-> <<left, right>>]
AstLambda(ret) == [kind |-> "Lambda", id |-> "", kids |-> <<ret>>]
AstTuple(left, right) == [kind |-> "Tuple", id |-> "",
                          kids |-> <<left, right>>]

\* the attribute names of the expressions checked and the underscores each
\* begins with
LeadingUnderscores ==
    [a \in {"get", "real", "_private", "__class__"} |->
        CASE a = "_private" -> 1 [] a = "__class__" -> 2 [] OTHER -> 0]

\* node.attr.startswith("__")
StartsWithDunder(attr) == LeadingUnderscores[attr] >= 2

\* what visit leaves: whether it returned and self._allowed_names
Accepted(names) == [ok |-> TRUE, names |-> names]
Rejected == [ok |-> FALSE, names |-> {}]

\* _visit_comprehension without its last line
RestoreNames_Kept(original, current) == current

\* _visit_comprehension: self._allowed_names = original
RestoreNames(original, current) == original

RECURSIVE Visit(_, _)
RECURSIVE VisitEach(_, _)

\* visiting nodes in order with the one validator
VisitEach(nodes, names) ==
    IF nodes = <<>> THEN Accepted(names)
    ELSE LET r == Visit(Head(nodes), names)
         IN  IF r.ok THEN VisitEach(Tail(nodes), r.names) ELSE Rejected

\* visit_Attribute
VisitAttribute(node, names) ==
    IF StartsWithDunder(node.id) \/ node.id \notin ALLOWED_ATTRIBUTES
    THEN Rejected
    ELSE Visit(node.kids[1], names)

\* visit_Call: the callee, then the arguments
VisitCall(node, names) ==
    LET func == node.kids[1]
    IN  IF func.kind = "Name"
        THEN IF func.id \notin ALLOWED_FUNCTIONS THEN Rejected
             ELSE VisitEach(Tail(node.kids), names)
        ELSE IF func.kind = "Attribute"
        THEN LET r == VisitAttribute(func, names)
             IN  IF r.ok THEN VisitEach(Tail(node.kids), r.names)
                 ELSE Rejected
        ELSE Rejected

\* _visit_comprehension: the targets join the allowed names, the iterables
\* and then the element are visited, the allowed names are put back
VisitComprehension(node, names) ==
    LET elt == node.kids[1]
        target == node.kids[2]
        iter == node.kids[3]
    IN  IF target.kind # "Name" THEN Rejected
        ELSE LET original == names
                 r == VisitEach(<<iter, elt>>, names \cup {target.id})
             IN  IF r.ok THEN Accepted(RestoreNames(original, r.names))
                 ELSE Rejected

\* _ExpressionValidator.visit and the visit_* it dispatches to
Visit(node, names) ==
    IF node.kind \notin AllowedNodes THEN Rejected
    ELSE CASE node.kind = "Name" ->
                IF node.id \notin names THEN Rejected ELSE Accepted(names)
           [] node.kind = "Attribute" -> VisitAttribute(node, names)
           [] node.kind = "Call" -> VisitCall(node, names)
           [] node.kind \in {"ListComp", "GeneratorExp"} ->
                VisitComprehension(node, names)
           [] OTHER -> VisitEach(node.kids, names)

\* _validate_expression on a parsed expression: TRUE when it returns
ValidateExpression(tree) ==
    Visit(tree, {"body", "headers", "context"} \cup ALLOWED_FUNCTIONS).ok

\* the expressions given to evaluate()
SandboxAtoms ==
    {AstName(n) : n \in {"body", "len", "x", "open"}} \cup {AstConstant}

SandboxSubjects == {AstName(n) : n \in {"body", "x", "open"}}

SandboxCallees ==
    {AstName("len"), AstName("open"), AstName("x"),
     AstAttribute(AstName("body"), "get"),
     AstAttribute(AstName("body"), "__class__"),
     AstLambda(AstConstant)}

SandboxComps ==
    {AstComp(c, e, t, i) :
        c \in {"ListComp", "GeneratorExp", "SetComp"},
        e \in SandboxAtoms,
        t \in {AstName("x"), AstTuple(AstName("x"), AstName("y"))},
        i \in SandboxSubjects}

SandboxNested ==
    {AstComp("ListComp", e, AstName("x"), AstName("body")) :
        e \in {AstCall(AstName("len"), AstName("x")),
               AstCall(AstName("x"), AstConstant),
               AstAttribute(AstName("x"), "get"),
               AstAttribute(AstName("x"), "_private"),
               AstComp("ListComp", AstName("y"), AstName("y"), AstName("x")),
               AstBinOp(AstComp("ListComp", AstName("y"), AstName("y"),
                                AstName("x")),
                        AstName("y"))}}

SandboxExpressions ==
    SandboxAtoms
    \cup {AstAttribute(v, a) : v \in SandboxSubjects,
                               a \in DOMAIN LeadingUnderscores}
    \cup {AstCall(f, a) : f \in SandboxCallees, a \in SandboxAtoms}
    \cup SandboxComps
    \cup {AstLambda(a) : a \in SandboxAtoms}
    \cup {AstBinOp(c, a) : c \in SandboxComps, a \in {AstName("x")}}
    \cup {AstBinOp(a, c) : c \in SandboxComps, a \in {AstName("x")}}
    \cup SandboxNested

\* what eval() of a validated expression can end with: a value, or an
\* exception that evaluate() wraps
EvalOutcomes == {"returned", "ExpressionError", "ExpressionTimeoutError"}

SandboxInit ==
    /\ evaluation \in {[pc |-> "sandbox", expression |-> e,
                        outcome |-> None, evaluated |-> FALSE] :
                            e \in SandboxExpressions}
    /\ EvaluationAlone

\* SafeExpressionEvaluator.evaluate: _validate_expression, then eval
SandboxEvaluate ==
    /\ evaluation.pc = "sandbox"
    /\ UNCHANGED evaluationOthers
    /\ IF ~ValidateExpression(evaluation.expression)
       THEN evaluation' = [evaluation EXCEPT
                !.pc = "sandbox_done",
                !.outcome = "ExpressionSecurityError"]
       ELSE \E o \in EvalOutcomes :
                evaluation' = [evaluation EXCEPT
                    !.pc = "sandbox_done", !.outcome = o,
                    !.evaluated = TRUE]

SandboxNext == SandboxEvaluate

SandboxSpec == SandboxInit /\ [][SandboxNext]_vars

RECURSIVE Whitelisted(_, _)

\* the whitelist as the claim words it, with the comprehension variables
\* in scope passed down and never stored
Whitelisted(node, scope) ==
    /\ node.kind \in AllowedNodes
    /\ CASE node.kind = "Name" ->
              node.id \in {"body", "headers", "context"}
                          \cup ALLOWED_FUNCTIONS \cup scope
         [] node.kind = "Attribute" ->
              /\ LeadingUnderscores[node.id] = 0
              /\ node.id \in ALLOWED_ATTRIBUTES
              /\ Whitelisted(node.kids[1], scope)
         [] node.kind = "Call" ->
              /\ \/ /\ node.kids[1].kind = "Name"
                    /\ node.kids[1].id \in ALLOWED_FUNCTIONS
                 \/ /\ node.kids[1].kind = "Attribute"
                    /\ Whitelisted(node.kids[1], scope)
              /\ Whitelisted(node.kids[2], scope)
         [] node.kind \in {"ListComp", "GeneratorExp"} ->
              /\ node.kids[2].kind = "Name"
              /\ Whitelisted(node.kids[1], scope \cup {node.kids[2].id})
              /\ Whitelisted(node.kids[3], scope \cup {node.kids[2].id})
         [] OTHER ->
              \A k \in DOMAIN node.kids : Whitelisted(node.kids[k], scope)

AllResolved == \A i \in Instances : pc[i] \in {"completed", "cancelled"}

\* every permit of the semaphore is back
PermitsReleased == semaphore = parallelism

\* C32: when every exec call returns or raises, execute returns with every
\* instance resolved as completed or cancelled and every permit released
C32_ReturnsResolved ==
    (phase = "running")
        ~> (phase = "returned" /\ AllResolved /\ PermitsReleased)

\* execute returns with every task ended and every permit released
C32_ReturnsWithPermitsReleased ==
    (phase = "running")
        ~> (/\ phase = "returned"
            /\ \A i \in Instances : TaskDone(i)
            /\ PermitsReleased)

\* an instance is resolved unless its exec call raised
C32_ResolvedUnlessRaised ==
    phase = "returned" =>
        \A i \in Instances :
            pc[i] \in {"completed", "cancelled"} \/ i \in exec_raised

\* ------------------------------------------ assert actions inside the flow

\* flow step k (from 1) of instance i was an AssertAction that failed
FlowAssertFailed(i, k) ==
    /\ k <= Len(inst[i].trace)
    /\ scenario.flow[k].type = "assert"
    /\ inst[i].trace[k] = "failed"

\* the failed flow assertion k of instance i is in assertions.jsonl and is
\* no instance error
RecordedAsAssertion(i, k) ==
    /\ \E n \in 1 .. Len(assertions_jsonl) :
          /\ assertions_jsonl[n].instance_id = instance_id(i)
          /\ assertions_jsonl[n].step_index = k - 1
          /\ ~assertions_jsonl[n].passed
    /\ inst[i].raised = None => inst[i].error = None

\* C33: a failed AssertAction of the flow is recorded as an assertion result
\* and not as an instance error, and the next flow step is executed exactly
\* when stop_when.any_assertion_fails is not set
C33_FlowAssertGovernedByAssertionFlag ==
    \A i \in DOMAIN inst :
        \A k \in 1 .. Len(scenario.flow) :
            FlowAssertFailed(i, k) =>
                /\ RecordedAsAssertion(i, k)
                /\ (k < Len(scenario.flow) /\ PastFlow(inst[i])) =>
                      (Len(inst[i].trace) > k
                          <=> ~scenario.stop_when.any_assertion_fails)

\* a failed AssertAction of the flow is recorded as an assertion result and
\* the next flow step is executed exactly when stop_when.any_action_fails
\* is not set
C33_FlowAssertGovernedByActionFlag ==
    \A i \in DOMAIN inst :
        \A k \in 1 .. Len(scenario.flow) :
            FlowAssertFailed(i, k) =>
                /\ RecordedAsAssertion(i, k)
                /\ (k < Len(scenario.flow) /\ PastFlow(inst[i])) =>
                      (Len(inst[i].trace) > k
                          <=> ~scenario.stop_when.any_action_fails)

\* ------------------------------------------------ wait: polls and sleeps

\* the first poll was recorded and did not meet the condition
FirstPollUnmet ==
    /\ Len(wait.attempts) >= 1
    /\ ~wait.attempts[1].condition_met

\* C34: a wait whose timeout equals its interval issues exactly one poll
\* when that poll does not meet the condition, whatever the poll's latency
C34_OnePollWhenTimeoutIsInterval ==
    (/\ wait.pc # "idle"
     /\ wait.timeout_seconds = wait.interval_seconds
     /\ FirstPollUnmet)
        => /\ Len(wait.polls) = 1
           /\ wait.pc # "request"

\* C34 witness: timeout = interval, the one poll took the longest latency,
\* did not meet the condition, and the wait ended timed out
C34_Witness ==
    /\ WaitDone
    /\ wait.timeout_seconds = wait.interval_seconds
    /\ FirstPollUnmet
    /\ wait.attempts[1].latency = MaxLatency
    /\ TheWaitObservation.timed_out
    /\ TheWaitObservation.total_attempts = 1

\* C35: the sleep after a poll that did not meet the condition is
\* min(interval, timeout - elapsed) with elapsed the time since the wait
\* started, so no sleep ends after the overall timeout
C35_NoSleepPastTimeout ==
    wait.pc = "sleep" =>
        LET elapsed == wait.now - wait.start_time
        IN  /\ wait.sleep_time
                 = Min(wait.interval_seconds, wait.timeout_seconds - elapsed)
            /\ elapsed + wait.sleep_time <= wait.timeout_seconds

\* the sleep is min(interval, timeout - elapsed) with elapsed as it was
\* measured before the poll request, and it is never <= 0
C35_SleepFromElapsedBeforePoll ==
    wait.pc = "sleep" =>
        /\ wait.sleep_time
              = Min(wait.interval_seconds,
                    wait.timeout_seconds - wait.elapsed_seconds)
        /\ wait.elapsed_seconds = wait.poll_start - wait.start_time
        /\ wait.sleep_time > 0

\* ------------------- the contains comparison: assert_.py and wait.py
\* A Python value is its type, its text when it is an int or a str (a
\* sequence of characters) and its items when it is a list, a tuple or a
\* dict; an item is the key it is stored under (dict only, a str) and the
\* scalar stored.

PyInt(text) == [type |-> "int", text |-> text, items |-> <<>>]
PyStr(text) == [type |-> "str", text |-> text, items |-> <<>>]
PyList(items) == [type |-> "list", text |-> <<>>, items |-> items]
PyTuple(items) == [type |-> "tuple", text |-> <<>>, items |-> items]
PyDict(items) == [type |-> "dict", text |-> <<>>, items |-> items]
PyNone == [type |-> "NoneType", text |-> <<>>, items |-> <<>>]

\* the scalar x stored under key k (<<>> in a list or a tuple)
Item(k, x) == [key |-> k, type |-> x.type, text |-> x.text]

\* str(x) of an int or a str
Str(x) == x.text

\* `sub in text` on two strings
IsSubstring(sub, text) ==
    \E k \in 0 .. (Len(text) - Len(sub)) :
        SubSeq(text, k + 1, k + Len(sub)) = sub

\* `x in items` on a list or a tuple, and `x in d.values()` on a dict
InValues(x, items) ==
    \E k \in 1 .. Len(items) :
        items[k].type = x.type /\ items[k].text = x.text

\* `x in d` on a dict: membership among the keys, which are strings
InKeys(x, items) ==
    \E k \in 1 .. Len(items) : x.type = "str" /\ items[k].key = x.text

\* AssertActionRunner._compare_values, `if has_contains`: passed
CompareContains(actual, expected_contains) ==
    IF actual.type = "str"
    THEN IsSubstring(Str(expected_contains), actual.text)
    ELSE IF actual.type \in {"list", "tuple"}
    THEN InValues(expected_contains, actual.items)
    ELSE IF actual.type = "dict" THEN InKeys(expected_contains, actual.items)
    ELSE FALSE

\* WaitActionRunner._check_contains
CheckContains(value, expected) ==
    IF value.type = "list" THEN InValues(expected, value.items)
    ELSE IF value.type = "str" THEN IsSubstring(Str(expected), value.text)
    ELSE IF value.type = "dict" THEN InValues(expected, value.items)
    ELSE FALSE

\* the expected values and the actual values compared
ContainsExpected == {PyInt(<<"1">>), PyStr(<<"1">>), PyStr(<<"a">>)}

\* the keys of the maps compared
ContainsKeys == {<<"1">>, <<"a">>}

\* the maps of up to two keys, in each order of insertion
ContainsDicts ==
    {PyDict(<<>>)}
    \cup {PyDict(<<Item(k, x)>>) : k \in ContainsKeys, x \in ContainsExpected}
    \cup {d \in {PyDict(<<Item(k, x), Item(j, y)>>) :
                     k \in ContainsKeys, j \in ContainsKeys,
                     x \in ContainsExpected, y \in ContainsExpected} :
             d.items[1].key # d.items[2].key}

ContainsItems == {Item(<<>>, x) : x \in ContainsExpected}

ContainsActuals ==
    ContainsExpected
    \cup {PyStr(<<"a", "1">>), PyNone}
    \cup {PyList(s) : s \in SeqsUpTo(ContainsItems, 2)}
    \cup {PyTuple(s) : s \in SeqsUpTo(ContainsItems, 2)}
    \cup ContainsDicts

ContainsInit ==
    /\ evaluation \in {[pc |-> "contains", actual |-> a, expected |-> e,
                        assert_passed |-> {}, wait_met |-> {}] :
                            a \in ContainsActuals, e \in ContainsExpected}
    /\ EvaluationAlone

\* an assert action compares the value with `contains`
AssertCompares ==
    /\ evaluation.pc = "contains"
    /\ evaluation.assert_passed = {}
    /\ evaluation' = [evaluation EXCEPT !.assert_passed =
           {CompareContains(evaluation.actual, evaluation.expected)}]
    /\ UNCHANGED evaluationOthers

\* a wait condition compares the value with `contains`
WaitChecks ==
    /\ evaluation.pc = "contains"
    /\ evaluation.wait_met = {}
    /\ evaluation' = [evaluation EXCEPT !.wait_met =
           {CheckContains(evaluation.actual, evaluation.expected)}]
    /\ UNCHANGED evaluationOthers

ContainsNext == AssertCompares \/ WaitChecks

ContainsSpec == ContainsInit /\ [][ContainsNext]_vars

\* both runners compared the value
BothCompared ==
    /\ evaluation.pc = "contains"
    /\ evaluation.assert_passed # {}
    /\ evaluation.wait_met # {}

\* the contains comparison as the claim words it
ContainsAsClaimed(actual, expected) ==
    CASE actual.type \in {"dict", "list", "tuple"} ->
            \E k \in DOMAIN actual.items :
                Item(<<>>, expected) = [actual.items[k] EXCEPT !.key = <<>>]
      [] actual.type = "str" ->
            \E k \in 0 .. Len(actual.text) : \E n \in 0 .. Len(actual.text) :
                SubSeq(actual.text, k + 1, n) = expected.text
      [] OTHER -> FALSE

\* C37: contains on a map tests membership among the map's values, in assert
\* actions and in wait conditions alike (list or tuple: membership; string:
\* substring of the stringified expected value; other types: false)
C37_ContainsIdentical ==
    BothCompared =>
        /\ evaluation.assert_passed = evaluation.wait_met
        /\ evaluation.wait_met
              = {ContainsAsClaimed(evaluation.actual, evaluation.expected)}

\* on a list, a string and any value that is no map and no tuple the two
\* comparisons agree and are as worded; on a map the wait condition tests
\* the values and the assert action tests the keys
C37_ContainsByType ==
    BothCompared =>
        LET a == evaluation.actual
            e == evaluation.expected
        IN  /\ a.type \notin {"dict", "tuple"} =>
                  /\ evaluation.assert_passed = evaluation.wait_met
                  /\ evaluation.wait_met = {ContainsAsClaimed(a, e)}
            /\ a.type = "dict" =>
                  /\ evaluation.wait_met = {ContainsAsClaimed(a, e)}
                  /\ evaluation.assert_passed =
                        {e.type = "str" /\ \E k \in DOMAIN a.items :
                                               a.items[k].key = e.text}
            /\ a.type = "tuple" =>
                  /\ evaluation.wait_met = {FALSE}
                  /\ evaluation.assert_passed = {ContainsAsClaimed(a, e)}

\* --------------------------------------- engine/conditions.py
\* A string is its sequence of characters.  A condition is either plain text
\* or one template variable, "{{name}}"; the context gives `flag` a value
\* of some type and has no `missing`.

\* str.lower() on the characters used
LowerChar(c) ==
    CASE c = "T" -> "t" [] c = "R" -> "r" [] c = "U" -> "u" [] c = "E" -> "e"
      [] OTHER -> c

Lower(text) == [k \in DOMAIN text |-> LowerChar(text[k])]

\* str.strip(): without the leading and the trailing blanks
RECURSIVE StripLeft(_)
StripLeft(text) ==
    IF text # <<>> /\ Head(text) = " " THEN StripLeft(Tail(text)) ELSE text

RECURSIVE StripRight(_)
StripRight(text) ==
    IF text # <<>> /\ text[Len(text)] = " "
    THEN StripRight(SubSeq(text, 1, Len(text) - 1)) ELSE text

Strip(text) == StripRight(StripLeft(text))

PlainCondition(text) == [kind |-> "text", name |-> "", text |-> text]
VarCondition(name) == [kind |-> "var", name |-> name, text |-> <<>>]

\* the value of `flag` in the context
FlagValues ==
    {[type |-> "bool", text |-> <<"T", "R", "U", "E">>],
     [type |-> "bool", text |-> <<"F", "a", "l", "s", "e">>],
     [type |-> "int", text |-> <<"1">>],
     [type |-> "int", text |-> <<"0">>],
     [type |-> "str", text |-> <<>>],
     [type |-> "str", text |-> <<" ">>],
     [type |-> "str", text |-> <<"t", "r", "u", "e">>],
     [type |-> "str", text |-> <<"x">>]}

Conditions ==
    {PlainCondition(t) :
        t \in {<<>>, <<"t", "r", "u", "e">>, <<"1">>, <<"f", "a", "l", "s", "e">>, <<"0">>, <<" ">>,
               <<"T", "R", "U", "E">>, <<" ", "1">>, <<"x">>}}
    \cup {VarCondition(n) : n \in {"flag", "missing"}}

\* `not condition`
IsEmptyCondition(condition) ==
    condition.kind = "text" /\ condition.text = <<>>

\* _render_condition: render_string returns plain text as it is and a single
\* variable as its value; a bool becomes "True" or "False", any other value
\* its str().  {} when the variable is missing (TemplateError).
RenderCondition(condition, flag) ==
    IF condition.kind = "text" THEN {condition.text}
    ELSE IF condition.name = "flag" THEN {flag.text}
    ELSE {}

IsFalseLiteral_NoEmpty(rendered) ==
    Lower(Strip(rendered)) \in {<<"f", "a", "l", "s", "e">>, <<"0">>}

\* rendered.strip().lower() in ("false", "0", "")
IsFalseLiteral(rendered) ==
    Lower(Strip(rendered)) \in {<<"f", "a", "l", "s", "e">>, <<"0">>, <<>>}

\* rendered.strip().lower() in ("true", "1")
IsTrueLiteral(rendered) == Lower(Strip(rendered)) \in {<<"t", "r", "u", "e">>, <<"1">>}

ConditionInit ==
    /\ evaluation \in {[pc |-> "condition", condition |-> c, flag |-> f,
                        result |-> {}, rendered |-> {}, raised |-> None,
                        evaluator_calls |-> 0] :
                            c \in Conditions, f \in FlagValues}
    /\ EvaluationAlone

\* ConditionEvaluator.evaluate(condition, context)
ConditionEvaluate ==
    /\ evaluation.pc = "condition"
    /\ UNCHANGED evaluationOthers
    /\ LET returns(b, r, n) ==
               evaluation' = [evaluation EXCEPT
                   !.pc = "condition_done", !.result = {b},
                   !.rendered = {r}, !.evaluator_calls = n]
           raises(r, n) ==
               evaluation' = [evaluation EXCEPT
                   !.pc = "condition_done", !.rendered = r,
                   !.raised = "ConditionEvaluationError",
                   !.evaluator_calls = n]
           tried == RenderCondition(evaluation.condition, evaluation.flag)
       IN  IF IsEmptyCondition(evaluation.condition)
           THEN returns(TRUE, <<>>, 0)
           ELSE IF tried = {} THEN raises({}, 0)
           ELSE LET rendered == CHOOSE r \in tried : TRUE
                IN  IF IsTrueLiteral(rendered) THEN returns(TRUE, rendered, 0)
                    ELSE IF IsFalseLiteral(rendered)
                    THEN returns(FALSE, rendered, 0)
                    ELSE \* _evaluate_expression returns a value or raises
                         \/ \E b \in BOOLEAN : returns(b, rendered, 1)
                         \/ raises({rendered}, 1)

ConditionNext == ConditionEvaluate

ConditionSpec == ConditionInit /\ [][ConditionNext]_vars

ConditionDone == evaluation.pc = "condition_done"

\* what the condition renders to
RendersTo(text) ==
    RenderCondition(evaluation.condition, evaluation.flag) = {text}

MaxDelay == 2

\* d.get(k, default)
GetOr(d, k, default) ==
    IF DictGet(d, k) = {} THEN default ELSE CHOOSE v \in DictGet(d, k) : TRUE

\* entry.seed_data.variation of a context: not there, or a map that may
\* hold _step_delay_ms and _timing_jitter_ms
Variations ==
    {{}} \cup
    {{d} : d \in {s \cup j :
                    s \in {{}} \cup {{<<"_step_delay_ms", v>>} :
                                        v \in 0 .. MaxDelay},
                    j \in {{}} \cup {{<<"_timing_jitter_ms", v>>} :
                                        v \in 0 .. MaxDelay}}}

\* lines 73-76: context.get("entry", {}).get("seed_data", {})
\*              .get("variation", {})
VariationData(variation) ==
    IF variation = {} THEN {} ELSE CHOOSE d \in variation : TRUE

\* lines 80-83: total_delay_ms of one step
TotalDelay(step_index, step_delay_ms, jitter_ms) ==
    (IF step_index > 0 THEN step_delay_ms ELSE 0) + jitter_ms

DelayInit ==
    /\ seeded \in {[pc |-> "step", variation |-> v, flow |-> n,
                    any_action_fails |-> f,
                    step_delay_ms |->
                        GetOr(VariationData(v), "_step_delay_ms", 0),
                    jitter_ms |->
                        GetOr(VariationData(v), "_timing_jitter_ms", 0),
                    step_index |-> 0,
                    \* history: every asyncio.sleep and every action run
                    slept |-> <<>>, executed |-> <<>>] :
                        v \in Variations, n \in 1 .. MaxFlow, f \in BOOLEAN}
    /\ SeededAlone

\* lines 78-86: the top of one iteration, up to the sleep or the action
FlowDelay ==
    /\ seeded.pc = "step"
    /\ LET total_delay_ms == TotalDelay(seeded.step_index,
                                        seeded.step_delay_ms,
                                        seeded.jitter_ms)
       IN  IF total_delay_ms > 0
           THEN seeded' = [seeded EXCEPT
                    !.pc = "sleep",
                    !.slept = Append(@, [step_index |-> seeded.step_index,
                                         ms |-> total_delay_ms])]
           ELSE seeded' = [seeded EXCEPT !.pc = "action"]
    /\ UNCHANGED seededOthers

\* asyncio.sleep(total_delay_ms / 1000.0) returns
FlowSleepEnds ==
    /\ seeded.pc = "sleep"
    /\ seeded' = [seeded EXCEPT !.pc = "action"]
    /\ UNCHANGED seededOthers

\* lines 88-102: the action is executed and yielded, then the stop check
FlowActionYields ==
    /\ seeded.pc = "action"
    /\ \E ok \in BOOLEAN :
          seeded' = [seeded EXCEPT
              !.executed = Append(@, seeded.step_index),
              !.step_index = @ + 1,
              !.pc = IF \/ ShouldStopFlow(ok, seeded.any_action_fails)
                        \/ seeded.step_index + 1 = seeded.flow
                     THEN "flow_done" ELSE "step"]
    /\ UNCHANGED seededOthers

DelayNext == FlowDelay \/ FlowSleepEnds \/ FlowActionYields

DelaySpec == DelayInit /\ [][DelayNext]_vars

\* C36: before flow step i the runner sleeps step_delay_ms +
\* timing_jitter_ms only when i > 0; there is no delay of either kind before
\* the first step
C36_NoDelayBeforeFirstStep ==
    seeded.pc \in {"step", "sleep", "action", "flow_done"} =>
        \A k \in 1 .. Len(seeded.slept) :
            /\ seeded.slept[k].step_index > 0
            /\ seeded.slept[k].ms = seeded.step_delay_ms + seeded.jitter_ms

\* before flow step i the runner sleeps the jitter, and the step delay also
\* when i > 0
C36_JitterBeforeEveryStep ==
    seeded.pc \in {"step", "sleep", "action", "flow_done"} =>
        /\ \A k \in 1 .. Len(seeded.slept) :
              seeded.slept[k].ms =
                  seeded.jitter_ms + IF seeded.slept[k].step_index > 0
                                     THEN seeded.step_delay_ms ELSE 0
        /\ \A k \in 1 .. Len(seeded.executed) :
              (seeded.jitter_ms > 0) =>
                  \E n \in 1 .. Len(seeded.slept) :
                      seeded.slept[n].step_index = seeded.executed[k]

\* ------------------------ engine/executor.py: execute() and SIGINT
\* A handler is named by who installed it: "default_int_handler" (Python's
\* own, raising KeyboardInterrupt), "SIG_DFL", "caller" (a function of the
\* calling program), "executor" (signal_handler of execute), or "None", what
\* signal.getsignal returns for a handler that was not installed from Python.

\* the SIGINTs sent to the process
MaxSigints == 3

signalsOthers == <<execVars, runVars, retryVars, http, turb, wait, store,
                   reader, replay, seeded, evaluation>>

HandlersBefore == {"default_int_handler", "SIG_DFL", "caller", "None"}

\* signal.signal(SIGINT, handler): the handler installed afterwards.
\* ValueError outside the main thread and TypeError for None leave the
\* handler as it is; execute() passes over both.
SignalSignal(current, handler, main_thread) ==
    IF ~main_thread \/ handler = "None" THEN current ELSE handler

SignalsInit ==
    /\ signals \in {[pc |-> "constructed", main_thread |-> m,
                     before |-> h, handler |-> h, original_handler |-> None,
                     cancel_requested |-> FALSE,
                     \* history: the phase and the handler of every SIGINT
                     sigints |-> <<>>] :
                         m \in BOOLEAN, h \in HandlersBefore}
    /\ ProgramIdle
    /\ EvaluationIdle

\* execute(), lines 165-179: _reset_state, getsignal, install signal_handler
SignalsExecute ==
    /\ signals.pc = "constructed"
    /\ signals' = [signals EXCEPT
           !.pc = "running",
           !.cancel_requested = FALSE,
           !.original_handler = signals.handler,
           !.handler = SignalSignal(signals.handler, "executor",
                                    signals.main_thread)]
    /\ UNCHANGED signalsOthers

\* a SIGINT reaches the process: the handler installed runs; signal_handler
\* calls request_cancel()
Sigint ==
    /\ signals.pc # "idle"
    /\ Len(signals.sigints) < MaxSigints
    /\ signals' = [signals EXCEPT
           !.sigints = Append(@, [during |-> signals.pc,
                                  handled_by |-> signals.handler]),
           !.cancel_requested =
               IF signals.handler = "executor" THEN TRUE ELSE @]
    /\ UNCHANGED signalsOthers

\* execute(), lines 181-192: _run_with_progress returns or raises, the
\* finally block puts original_handler back
SignalsExecuteEnds ==
    /\ signals.pc = "running"
    /\ \E outcome \in {"returned", "raised"} :
          signals' = [signals EXCEPT
              !.pc = outcome,
              !.handler = SignalSignal(signals.handler,
                                       signals.original_handler,
                                       signals.main_thread)]
    /\ UNCHANGED signalsOthers

SignalsNext == SignalsExecute \/ Sigint \/ SignalsExecuteEnds

SignalsSpec == SignalsInit /\ [][SignalsNext]_vars

\* the SIGINTs that arrived while execute() was running, in order
SigintsWhileRunning ==
    SelectSeq(signals.sigints, LAMBDA s : s.during = "running")

\* C39: in execute() the first SIGINT sets the cancel flag, a second one is
\* handled by the process-default handler and not by the executor, and after
\* execute() has returned or raised the handler installed before is
\* installed again
C39_SecondSigintDefault ==
    (signals.pc # "idle" /\ signals.main_thread) =>
        LET got == SigintsWhileRunning
        IN  /\ Len(got) >= 1 =>
                  got[1].handled_by = "executor" /\ signals.cancel_requested
            /\ Len(got) >= 2 => got[2].handled_by # "executor"
            /\ signals.pc \in {"returned", "raised"} =>
                  signals.handler = signals.before

\* in execute() every SIGINT is handled by the executor and sets the cancel
\* flag; afterwards the handler installed before is installed again unless
\* it was not installed from Python
C39_EverySigintCancels ==
    (signals.pc # "idle" /\ signals.main_thread) =>
        LET got == SigintsWhileRunning
        IN  /\ \A k \in 1 .. Len(got) : got[k].handled_by = "executor"
            /\ Len(got) >= 1 => signals.cancel_requested
            /\ (signals.pc \in {"returned", "raised"}
                   /\ signals.before # "None") =>
                  signals.handler = signals.before

\* ---------------------- summary.json counters and the executor's stats

\* ArtifactStore.__init__: the instance counters
NoInstancesCounted ==
    [total_instances |-> 0, pass_count |-> 0, fail_count |-> 0,
     error_count |-> 0]

\* write_instance, "Update tracking": the counters after one call
CountInstance(c, passed, error) ==
    [c EXCEPT !.total_instances = @ + 1,
              !.pass_count = IF passed = "True" THEN @ + 1 ELSE @,
              !.fail_count = IF passed = "False" THEN @ + 1 ELSE @,
              !.error_count = IF error # None THEN @ + 1 ELSE @]

\* the store's counters after the write_instance calls that wrote `file`,
\* which finalize() copies into summary.json
RECURSIVE InstanceCounts(_)
InstanceCounts(file) ==
    IF file = <<>> THEN NoInstancesCounted
    ELSE LET last == file[Len(file)]
         IN  CountInstance(InstanceCounts(SubSeq(file, 1, Len(file) - 1)),
                           last.passed, last.error)

\* C40: summary.json's pass_count, fail_count and error_count equal the
\* executor's passed, failed and errors, and every recorded instance is in
\* exactly one of the three: their sum is total_instances
C40_SummaryMatchesStats ==
    LET s == InstanceCounts(instances_jsonl)
    IN  phase = "returned" =>
            /\ s.pass_count = stats.passed
            /\ s.fail_count = stats.failed
            /\ s.error_count = stats.errors
            /\ s.pass_count + s.fail_count + s.error_count
                  = s.total_instances

\* summary.json counts an instance that ended with an error both as failed
\* and as an error; the executor counts it as an error only
C40_ErrorsAlsoCountedFailed ==
    LET s == InstanceCounts(instances_jsonl)
    IN  phase = "returned" =>
            /\ s.total_instances = stats.completed
            /\ s.pass_count = stats.passed
            /\ s.error_count = stats.errors
            /\ s.fail_count = stats.failed + stats.errors

====
